---------------------------- MODULE Spec2Model ----------------------------
(***************************************************************************)
(* A model of the TradingView bridge (lib/tv/bridge.ts) and of the study   *)
(* schema cache (lib/tv/studies.ts).                                       *)
(*                                                                         *)
(* Execution model: JavaScript, one thread.  A continuation of an async    *)
(* function runs as a microtask; microtasks run first-in first-out (mq).   *)
(* A continuation that awaits the unresolved `ready` promise sits in the   *)
(* promise's reaction list (readyWaiters) until registerWidget resolves    *)
(* it.  Calls made by the application (the start of an operation, a        *)
(* registration, a cache clear, a change of the window globals) can come   *)
(* between any two microtasks.                                             *)
(*                                                                         *)
(* A string is a sequence of one-character strings.                        *)
(***************************************************************************)
EXTENDS Integers, Sequences, FiniteSets, TLC

(* ------------------------------ bounds -------------------------------- *)

\* Longest list of names handed to prefetchStudySchemas.
MaxNames == 3
\* Number of top-level getStudySchema calls the application starts.
MaxDirect == 2
\* Number of bridge operations the application starts.
MaxTasks == 3
\* TradingViewChart components on the page.
MaxCharts == 2
\* Effect runs of those components (mounts and prop changes).
MaxRuns == 3
\* The handleFileChange and handlePaste calls of one run.
MaxUploads == 2
\* The fetchAllSymbols calls of one run.
MaxFetches == 3
\* The strategy buttons are clicked while the widget has seen fewer calls.
MaxCalls == 4
\* The items of one applyMultipleIndicators, drawMultiplePatterns or
\* drawMultiplePriceTargets call.
MaxItems == 2

(* ------------------------------ strings ------------------------------- *)

\* A field, option or argument that is absent (undefined).
Missing == <<"<undefined>">>

UpperChars == <<"A","B","C","D","E","F","G","H","I","J","K","L","M",
                "N","O","P","Q","R","S","T","U","V","W","X","Y","Z">>
LowerChars == <<"a","b","c","d","e","f","g","h","i","j","k","l","m",
                "n","o","p","q","r","s","t","u","v","w","x","y","z">>
WhiteSpace == {" ", "\t", "\n"}

LowerChar(c) ==
    IF \E i \in 1..Len(UpperChars) : UpperChars[i] = c
    THEN LowerChars[CHOOSE i \in 1..Len(UpperChars) : UpperChars[i] = c]
    ELSE c

\* String.prototype.toLowerCase
toLowerCase(s) == [i \in 1..Len(s) |-> LowerChar(s[i])]

\* String.prototype.trim
trim(s) ==
    LET nonWs == {i \in 1..Len(s) : s[i] \notin WhiteSpace}
    IN  IF nonWs = {} THEN <<>>
        ELSE LET lo == CHOOSE i \in nonWs : \A j \in nonWs : i <= j
                 hi == CHOOSE i \in nonWs : \A j \in nonWs : j <= i
             IN  SubSeq(s, lo, hi)

\* String.prototype.includes
includes(s, q) ==
    \E i \in 1..(Len(s) - Len(q) + 1) : SubSeq(s, i, i + Len(q) - 1) = q

keyOf(studyName) == toLowerCase(trim(studyName))

\* String(undefined)
StrUndefined == <<"u","n","d","e","f","i","n","e","d">>

(* --------------------------- the Map type ----------------------------- *)
\* A JavaScript Map: a sequence of [key, value] in insertion order.

MapHas(m, k) == \E i \in 1..Len(m) : m[i].key = k

MapIndex(m, k) == CHOOSE i \in 1..Len(m) : m[i].key = k

\* Map.prototype.get; `absent` stands for the undefined of a missing key.
MapGet(m, k, absent) == IF MapHas(m, k) THEN m[MapIndex(m, k)].value ELSE absent

\* Map.prototype.set: a present key keeps its place.
MapSet(m, k, v) ==
    IF MapHas(m, k)
    THEN [i \in 1..Len(m) |-> IF m[i].key = k THEN [key |-> k, value |-> v] ELSE m[i]]
    ELSE Append(m, [key |-> k, value |-> v])

MapDelete(m, k) == SelectSeq(m, LAMBDA e : e.key # k)

MapKeys(m) == {m[i].key : i \in 1..Len(m)}


(* ------------------------------ inputs -------------------------------- *)

RSI == <<"R","S","I">>
RsiPadded == <<" ","r","s","i"," ">>
MACD == <<"M","A","C","D">>
BADSTUDY == <<"B","A","D","S","T","U","D","Y">>
EmptyName == <<>>
BlankName == <<" ">>

\* The study names the application passes.
StudyNames == {RSI, RsiPadded, MACD, BADSTUDY, EmptyName, BlankName}

\* The names top-level getStudySchema calls are made with.
CallNames == {RSI, RsiPadded, EmptyName}

\* The arguments of clearStudyCache; Missing is the omitted argument.
ClearArgs == {RSI, EmptyName, BlankName, Missing}

\* The names a prefetch list is made of, in the order lists introduce them.
PrefetchOrder == <<RSI, MACD, BADSTUDY>>
PrefetchNames == {PrefetchOrder[i] : i \in DOMAIN PrefetchOrder}

Keys == {keyOf(n) : n \in StudyNames}

\* What the widget's getStudyInputs hands back: elements are objects, any of
\* whose fields may be absent; the result may be no array at all.
RawLength == [id |-> <<"i","n","_","0">>, name |-> <<"L","e","n">>,
              localizedName |-> Missing, type |-> <<"i","n","t">>]
RawSource == [id |-> Missing, name |-> Missing,
              localizedName |-> <<"S","r","c">>, type |-> Missing]
RawResults == { [isArray |-> FALSE, items |-> <<>>],
                [isArray |-> TRUE, items |-> <<RawLength, RawSource>>] }

\* The message of what the accessor throws.
Thrown == { <<"unknown study">> }

\* What a call of the accessor does: it returns or it throws.
AccessorOutcomes ==
    {[threw |-> FALSE, raw |-> r] : r \in RawResults}
    \cup {[threw |-> TRUE, message |-> m] : m \in Thrown}

\* What getWidget() finds on window at the moment it looks: nothing, a widget
\* with an accessor (getStudyInputs, or activeChart().getStudyInputs), or a
\* widget with neither.  Nothing in this repository sets these globals: they
\* are the environment's, and each look may find something else.
WindowWidgets == {"none", "accessor", "bare"}

(* ----------------------------- processes ------------------------------ *)

DirectCall(i) == <<"call", i>>
Worker(i) == <<"worker", i>>
DirectCalls == {DirectCall(i) : i \in 1..MaxDirect}
Workers == {Worker(i) : i \in 1..MaxNames}
\* The getSchemasForLLM call: its loop awaits one getStudySchema at a time.
LlmCaller == <<"llm", 1>>
Procs == DirectCalls \cup Workers \cup {LlmCaller}

NoResult == [pending |-> TRUE]

VARIABLES
    readyResolved,   \* bridge.ts `ready`: has _resolve been called
    readyWaiters,    \* continuations awaiting the unresolved `ready`, in order
    mq,              \* the microtask queue
    cache,           \* studies.ts `cache`
    nextObj,         \* identity of the next schema object allocated
    pc,              \* per getStudySchema caller: where it is
    cur,             \* per caller: the studyName of its getStudySchema call
    res,             \* per caller: how that call settled
    nDirect,         \* top-level getStudySchema calls started so far
    queriesSince,    \* per key: accessor calls since the key was last cleared
    okSettled,       \* per key: schema objects returned since the last clear
    errSettled,      \* per key: error messages thrown since the last clear
    seenOk,          \* per caller: okSettled of its key when the call began
    seenErr,         \* per caller: errSettled of its key when the call began
    accessor,        \* per caller: "none", or how its accessor call ended
    pfStatus,        \* prefetchStudySchemas: idle, running, resolved, rejected
    pfNames,         \* its `studies`
    pfCallback,      \* its opts.onProgress: none, given
    pfConcurrency,   \* its opts.concurrency
    pfWorkers,       \* how many workers it started
    idx,             \* its `idx`
    done,            \* its `done`
    success,         \* its `success`
    failed,          \* its `failed`
    progress,        \* the onProgress invocations so far
    fetched,         \* per settled item, in completion order: name, accessor
    llmStatus,       \* getSchemasForLLM: idle, running, resolved
    llmNames,        \* its `studies`
    llmPos,          \* the position its for-of loop is at
    llmResults,      \* its `results`
    llmSettled,      \* per position gone through: how its getStudySchema settled
    lastRead,        \* the last cache read and what it returned
    widgetRef,       \* bridge.ts `widgetRef` (NoWidget for null)
    chartRef,        \* bridge.ts `chartRef`: the chart of which widget
    appliedIndicators,
    appliedPatterns,
    appliedAnnotations,
    appliedPriceTargets,
    tpc,             \* per bridge operation: where it is
    top,             \* per bridge operation: which, with its argument
    tout,            \* per bridge operation: how its promise settled
    nTasks,          \* bridge operations started so far
    nextHandle,      \* identity of the next entity a widget creates
    entities,        \* the studies and shapes alive on the widgets
    studyIds,        \* the ids of the entities that createStudy returned
    widgetCalls,     \* the calls made on widgets, in order
    scriptPromise,   \* chart.tsx `scriptPromise`: null, pending, resolved, rejected
    windowTradingView, \* is window.TradingView defined
    scriptElements,  \* script elements appended to document.head
    runs,            \* per effect run of a TradingViewChart: its chart, where it is, isCancelled
    chartWidget,     \* per TradingViewChart: its widgetRef.current
    nRuns,           \* effect runs so far
    batchTask,       \* the drawMultiple.../applyMultipleIndicators call under way
    batchChildren,   \* the single-item calls it made, in order
    batchResults,    \* its `results`
    indicatorState,  \* ChartContent: the badge of MACD, RSI and EMA(20)
    isStrategyApplied, \* ChartContent: isStrategyApplied
    strategy,        \* ChartContent: where applyStrategy or removeStrategy is
    open,            \* TokenPicker: open
    tokens,          \* TokenPicker: tokens.length
    isLoading,       \* TokenPicker: isLoading
    effectDue,       \* TokenPicker: a dependency of the effect changed
    fetching,        \* TokenPicker: a fetchAllSymbols call is in flight
    fetches,         \* fetchAllSymbols calls since the dialog was opened
    promptInput,     \* the prompt input: input
    uploadQueue,     \* the prompt input: uploadQueue
    attachments,     \* the prompt input: attachments.length
    uploads,         \* per handleFileChange or handlePaste call: its uploads
    nUploads         \* such calls so far

gateVars == <<readyResolved, readyWaiters, mq>>
callVars == <<pc, cur, res, seenOk, seenErr, accessor>>
pfVars == <<pfStatus, pfNames, pfCallback, pfConcurrency, pfWorkers, idx, done,
           success, failed, progress, fetched>>
llmVars == <<llmStatus, llmNames, llmPos, llmResults, llmSettled>>
histVars == <<queriesSince, okSettled, errSettled>>
tableVars == <<appliedIndicators, appliedPatterns, appliedAnnotations, appliedPriceTargets>>
taskVars == <<tpc, top, tout, nTasks>>
widgetVars == <<nextHandle, entities, studyIds, widgetCalls>>
bridgeVars == <<widgetRef, chartRef, tableVars, taskVars, widgetVars>>
chartVars == <<scriptPromise, windowTradingView, scriptElements, runs, chartWidget, nRuns>>
batchVars == <<batchTask, batchChildren, batchResults>>
strategyVars == <<indicatorState, isStrategyApplied, strategy>>
pickerVars == <<open, tokens, isLoading, effectDue, fetching, fetches>>
uploadVars == <<promptInput, uploadQueue, attachments, uploads, nUploads>>
uiVars == <<strategyVars, pickerVars, uploadVars>>


(* -------------------------- getStudySchema ---------------------------- *)

NotAvailableError == <<"TradingView widget not available">>

\* Mutant: the message is built from the cache key instead of the name.
AccessorErrorByKey(studyName, message) ==
    <<"getStudyInputs failed for \"">> \o keyOf(studyName) \o <<"\": ">> \o message

\* `getStudyInputs failed for "${studyName}": ${e.message}`
AccessorError(studyName, message) ==
    <<"getStudyInputs failed for \"">> \o studyName \o <<"\": ">> \o message

\* One element of the normalized inputs: String(i.id), name ?? "",
\* localizedName ?? name ?? "", type ?? "".
NormalizeInput(i) ==
    [id |-> IF i.id = Missing THEN StrUndefined ELSE i.id,
     name |-> IF i.name = Missing THEN <<>> ELSE i.name,
     localizedName |-> IF i.localizedName # Missing THEN i.localizedName
                       ELSE IF i.name # Missing THEN i.name ELSE <<>>,
     type |-> IF i.type = Missing THEN <<>> ELSE i.type]

\* A result that is no array counts as the empty array.
NormalizeInputs(raw) ==
    IF raw.isArray THEN [j \in 1..Len(raw.items) |-> NormalizeInput(raw.items[j])]
    ELSE <<>>

NoRaw == [isArray |-> FALSE, items |-> <<>>]

\* Does the widget found on window expose an accessor.
HasAccessor(w) == w = "accessor"

\* The cache entry a getStudySchema call writes after `await ready`, for the
\* widget w found on window and the outcome o of the accessor call (if made);
\* obj is the identity of the schema object it allocates.
FetchedEntry(studyName, obj, w, o) ==
    IF w = "none" THEN [ok |-> FALSE, error |-> NotAvailableError]
    ELSE IF HasAccessor(w) /\ o.threw
         THEN [ok |-> FALSE, error |-> AccessorError(studyName, o.message)]
    ELSE [ok |-> TRUE,
          schema |-> [obj |-> obj, name |-> studyName,
                      inputs |-> NormalizeInputs(IF HasAccessor(w) THEN o.raw ELSE NoRaw)]]

\* Where a caller goes once its getStudySchema promise has settled: a
\* top-level call is over, a worker's continuation is queued.
After(p) == IF p \in DirectCalls THEN "done" ELSE "resume"
Enq(q, p) == IF p \in DirectCalls THEN q ELSE Append(q, p)

\* The schema objects (error messages) that calls by the callers ps for key k
\* settle with when they find the entry e in the cache.
OkOf(e) == IF e.ok THEN {e.schema.obj} ELSE {}
ErrOf(e) == IF e.ok THEN {} ELSE {e.error}

\* Mutant: the fetch does not wait for `ready`.
StartCallsNoGate(starts, q) ==
    LET order == [i \in DOMAIN starts |-> starts[i][1]]
        started == {order[i] : i \in DOMAIN order}
        nameOf(p) == starts[CHOOSE i \in DOMAIN starts : starts[i][1] = p][2]
        hit(p) == MapHas(cache, keyOf(nameOf(p)))
        entry(p) == MapGet(cache, keyOf(nameOf(p)), NoResult)
        hitsOf(k) == {p \in started : keyOf(nameOf(p)) = k /\ hit(p)}
    IN  /\ cur' = [p \in Procs |-> IF p \in started THEN nameOf(p) ELSE cur[p]]
        /\ res' = [p \in Procs |-> IF p \in started THEN entry(p) ELSE res[p]]
        /\ pc' = [p \in Procs |->
                    IF p \in started THEN (IF hit(p) THEN After(p) ELSE "fetch")
                    ELSE pc[p]]
        /\ mq' = q \o SelectSeq(order, LAMBDA p : hit(p) => p \notin DirectCalls)
        /\ readyWaiters' = readyWaiters
        /\ seenOk' = [p \in Procs |->
                    IF p \in started THEN okSettled[keyOf(nameOf(p))] ELSE seenOk[p]]
        /\ seenErr' = [p \in Procs |->
                    IF p \in started THEN errSettled[keyOf(nameOf(p))] ELSE seenErr[p]]
        /\ accessor' = [p \in Procs |-> IF p \in started THEN "none" ELSE accessor[p]]
        /\ okSettled' = [k \in Keys |->
                    okSettled[k] \cup UNION {OkOf(entry(p)) : p \in hitsOf(k)}]
        /\ errSettled' = [k \in Keys |->
                    errSettled[k] \cup UNION {ErrOf(entry(p)) : p \in hitsOf(k)}]
        /\ UNCHANGED <<readyResolved, cache, nextObj, queriesSince>>

\* The synchronous part of getStudySchema, up to `await ready`, for the calls
\* starts = << <<caller, studyName>>, ... >> begun in this order in one
\* synchronous run; q is the microtask queue they add to.
StartCalls(starts, q) ==
    LET order == [i \in DOMAIN starts |-> starts[i][1]]
        started == {order[i] : i \in DOMAIN order}
        nameOf(p) == starts[CHOOSE i \in DOMAIN starts : starts[i][1] = p][2]
        hit(p) == MapHas(cache, keyOf(nameOf(p)))
        entry(p) == MapGet(cache, keyOf(nameOf(p)), NoResult)
        hitsOf(k) == {p \in started : keyOf(nameOf(p)) = k /\ hit(p)}
    IN  /\ cur' = [p \in Procs |-> IF p \in started THEN nameOf(p) ELSE cur[p]]
        /\ res' = [p \in Procs |-> IF p \in started THEN entry(p) ELSE res[p]]
        /\ pc' = [p \in Procs |->
                    IF p \in started THEN (IF hit(p) THEN After(p) ELSE "fetch")
                    ELSE pc[p]]
        /\ mq' = q \o SelectSeq(order,
                     LAMBDA p : IF hit(p) THEN p \notin DirectCalls ELSE readyResolved)
        /\ readyWaiters' = readyWaiters \o SelectSeq(order,
                     LAMBDA p : ~hit(p) /\ ~readyResolved)
        /\ seenOk' = [p \in Procs |->
                    IF p \in started THEN okSettled[keyOf(nameOf(p))] ELSE seenOk[p]]
        /\ seenErr' = [p \in Procs |->
                    IF p \in started THEN errSettled[keyOf(nameOf(p))] ELSE seenErr[p]]
        /\ accessor' = [p \in Procs |-> IF p \in started THEN "none" ELSE accessor[p]]
        /\ okSettled' = [k \in Keys |->
                    okSettled[k] \cup UNION {OkOf(entry(p)) : p \in hitsOf(k)}]
        /\ errSettled' = [k \in Keys |->
                    errSettled[k] \cup UNION {ErrOf(entry(p)) : p \in hitsOf(k)}]
        /\ UNCHANGED <<readyResolved, cache, nextObj, queriesSince>>

\* The application calls getStudySchema(studyName).
GetStudySchema(studyName) ==
    /\ nDirect < MaxDirect
    /\ nDirect' = nDirect + 1
    /\ StartCalls(<< <<DirectCall(nDirect + 1), studyName>> >>, mq)
    /\ UNCHANGED <<pfVars, llmVars, chartVars, batchVars, uiVars, lastRead, bridgeVars>>

\* The continuation of getStudySchema after `await ready`: look for the
\* widget, call the accessor, cache the outcome, settle.
Fetch(p) ==
    /\ mq # <<>> /\ Head(mq) = p /\ pc[p] = "fetch"
    /\ \E w \in WindowWidgets, o \in AccessorOutcomes :
         LET k == keyOf(cur[p])
             asked == HasAccessor(w)
             e == FetchedEntry(cur[p], nextObj, w, o)
         IN  /\ asked \/ o = CHOOSE x \in AccessorOutcomes : TRUE
             /\ cache' = MapSet(cache, k, e)
             /\ res' = [res EXCEPT ![p] = e]
             /\ pc' = [pc EXCEPT ![p] = After(p)]
             /\ mq' = Enq(Tail(mq), p)
             /\ nextObj' = IF e.ok THEN nextObj + 1 ELSE nextObj
             /\ accessor' = [accessor EXCEPT ![p] =
                    IF ~asked THEN "none" ELSE IF o.threw THEN "threw" ELSE "returned"]
             /\ queriesSince' = [queriesSince EXCEPT ![k] = @ + (IF asked THEN 1 ELSE 0)]
             /\ okSettled' = [okSettled EXCEPT ![k] = @ \cup OkOf(e)]
             /\ errSettled' = [errSettled EXCEPT ![k] = @ \cup ErrOf(e)]
    /\ UNCHANGED <<readyResolved, readyWaiters, cur, seenOk, seenErr, nDirect, pfVars, llmVars, chartVars, batchVars, uiVars,
                   lastRead, bridgeVars>>


(* ------------------------ prefetchStudySchemas ------------------------ *)

DefaultConcurrency == 8

Max(a, b) == IF a >= b THEN a ELSE b
Min(a, b) == IF a <= b THEN a ELSE b

\* Sequences over S of length at most n.
SeqsUpTo(S, n) == UNION {[1..m -> S] : m \in 0..n}

\* A list introduces its names in the order of PrefetchOrder: the names differ
\* in nothing else, so every list is one of these up to renaming.
InOrder(l) ==
    \A i \in DOMAIN l, j \in DOMAIN PrefetchOrder :
        (l[i] = PrefetchOrder[j] /\ j > 1) => \E h \in 1..(i - 1) : l[h] = PrefetchOrder[j - 1]

NameLists == {l \in SeqsUpTo(PrefetchNames, MaxNames) : InOrder(l)}
\* opts.concurrency: a number, or omitted.
Omitted == [given |-> FALSE]
ConcurrencyArgs == {[given |-> TRUE, value |-> c] : c \in 0..MaxNames} \cup {Omitted}
\* opts.onProgress: omitted, or a function (which may throw when called).
Callbacks == {"none", "given"}

\* Mutant: one worker for every name, whatever the concurrency.
WorkerPerName(conc, total) == total

\* Math.min(Math.max(1, opts.concurrency ?? 8), total)
WorkerCount(conc, total) ==
    Min(Max(1, IF conc.given THEN conc.value ELSE DefaultConcurrency), total)

\* Mutant: the catch block swallows the failure.
RecordedSwallow(succ, fail, name, r) ==
    IF r.ok THEN [success |-> Append(succ, name), failed |-> fail]
    ELSE [success |-> succ, failed |-> fail]

\* The worker's try/catch: the name goes to success when its getStudySchema
\* promise resolved, and with the error message to failed when it rejected.
Recorded(succ, fail, name, r) ==
    IF r.ok THEN [success |-> Append(succ, name), failed |-> fail]
    ELSE [success |-> succ, failed |-> Append(fail, [name |-> name, error |-> r.error])]

\* The application calls prefetchStudySchemas(names, {concurrency, onProgress}):
\* every worker is started in turn and runs up to its first await.
PrefetchStudySchemas(names, conc, cb) ==
    LET nw == WorkerCount(conc, Len(names))
    IN  /\ pfStatus = "idle"
        /\ pfNames' = names
        /\ pfCallback' = cb
        /\ pfConcurrency' = conc
        /\ pfWorkers' = nw
        /\ idx' = nw
        /\ pfStatus' = IF nw = 0 THEN "resolved" ELSE "running"
        /\ StartCalls([i \in 1..nw |-> <<Worker(i), names[i]>>], mq)
        /\ UNCHANGED <<nDirect, done, success, failed, progress, fetched, llmVars, chartVars, batchVars, uiVars,
                       lastRead, bridgeVars>>

\* Have all workers but p returned.
OthersDone(p) == \A i \in 1..pfWorkers : Worker(i) = p \/ pc[Worker(i)] = "done"

\* A worker's continuation after `await getStudySchema(current)`: record the
\* item, count it, report progress, then take the next index or return.
WorkerResume(p) ==
    /\ mq # <<>> /\ Head(mq) = p /\ pc[p] = "resume"
    /\ LET rec == Recorded(success, failed, cur[p], res[p])
       IN  /\ success' = rec.success
           /\ failed' = rec.failed
    /\ done' = done + 1
    /\ fetched' = Append(fetched, [name |-> cur[p], accessor |-> accessor[p]])
    /\ progress' = IF pfCallback = "none" THEN progress
                   ELSE Append(progress, <<done + 1, Len(pfNames), cur[p]>>)
    /\ \E raises \in BOOLEAN :
         /\ raises => pfCallback = "given"
         /\ IF raises
            THEN \* the exception leaves the worker: Promise.all rejects
                 /\ pc' = [pc EXCEPT ![p] = "crashed"]
                 /\ mq' = Tail(mq)
                 /\ pfStatus' = IF pfStatus = "running" THEN "rejected" ELSE pfStatus
                 /\ UNCHANGED <<idx, readyResolved, readyWaiters, cache, nextObj, cur, res,
                                seenOk, seenErr, accessor, histVars>>
            ELSE IF idx < Len(pfNames)
            THEN /\ idx' = idx + 1
                 /\ StartCalls(<< <<p, pfNames[idx + 1]>> >>, Tail(mq))
                 /\ UNCHANGED pfStatus
            ELSE /\ pc' = [pc EXCEPT ![p] = "done"]
                 /\ mq' = Tail(mq)
                 /\ pfStatus' = IF pfStatus = "running" /\ OthersDone(p)
                                THEN "resolved" ELSE pfStatus
                 /\ UNCHANGED <<idx, readyResolved, readyWaiters, cache, nextObj, cur, res,
                                seenOk, seenErr, accessor, histVars>>
    /\ UNCHANGED <<nDirect, pfNames, pfCallback, pfConcurrency, pfWorkers, llmVars,
                   chartVars, batchVars, uiVars, lastRead, bridgeVars>>

(* -------------------------- getSchemasForLLM -------------------------- *)

\* { name: schema.name, inputs: schema.inputs.map(pick id, name,
\* localizedName, type) }
Projection(schema) ==
    [name |-> schema.name,
     inputs |-> [j \in DOMAIN schema.inputs |->
                   [id |-> schema.inputs[j].id, name |-> schema.inputs[j].name,
                    localizedName |-> schema.inputs[j].localizedName,
                    type |-> schema.inputs[j].type]]]

\* Mutant: a failed item leaves a null in the payload.
LlmPushedNull(results, r) ==
    IF r.ok THEN Append(results, Projection(r.schema)) ELSE Append(results, NoResult)

\* The loop body's try/catch: the projection is pushed when getStudySchema
\* resolved, and nothing when it rejected.
LlmPushed(results, r) ==
    IF r.ok THEN Append(results, Projection(r.schema)) ELSE results

\* The application calls getSchemasForLLM(names): the loop runs up to its
\* first await, or returns at once for no names.
GetSchemasForLLM(names) ==
    /\ llmStatus = "idle"
    /\ llmNames' = names
    /\ UNCHANGED <<llmResults, llmSettled>>
    /\ IF names = <<>>
       THEN /\ llmStatus' = "resolved"
            /\ UNCHANGED <<llmPos, gateVars, cache, nextObj, callVars, histVars>>
       ELSE /\ llmStatus' = "running"
            /\ llmPos' = 1
            /\ StartCalls(<< <<LlmCaller, names[1]>> >>, mq)
    /\ UNCHANGED <<nDirect, pfVars, chartVars, batchVars, uiVars, lastRead, bridgeVars>>

\* The loop's continuation after `await getStudySchema(s)`: push or skip,
\* then go to the next name or return results.
LlmResume ==
    /\ mq # <<>> /\ Head(mq) = LlmCaller /\ pc[LlmCaller] = "resume"
    /\ llmResults' = LlmPushed(llmResults, res[LlmCaller])
    /\ llmSettled' = Append(llmSettled, res[LlmCaller])
    /\ IF llmPos < Len(llmNames)
       THEN /\ llmPos' = llmPos + 1
            /\ StartCalls(<< <<LlmCaller, llmNames[llmPos + 1]>> >>, Tail(mq))
            /\ UNCHANGED llmStatus
       ELSE /\ pc' = [pc EXCEPT ![LlmCaller] = "done"]
            /\ mq' = Tail(mq)
            /\ llmStatus' = "resolved"
            /\ UNCHANGED <<llmPos, readyResolved, readyWaiters, cache, nextObj, cur, res,
                           seenOk, seenErr, accessor, histVars>>
    /\ UNCHANGED <<llmNames, nDirect, pfVars, chartVars, batchVars, uiVars, lastRead, bridgeVars>>

(* ------------------- hasStudy, peek, clearStudyCache ------------------- *)

NoEntry == [absent |-> TRUE]

\* Mutant: `!!c`, a cached error counts as cached.
hasStudyAnyEntry(c, studyName) == MapGet(c, keyOf(studyName), NoEntry) # NoEntry

hasStudy(c, studyName) ==
    LET e == MapGet(c, keyOf(studyName), NoEntry)
    IN  e # NoEntry /\ e.ok

\* The schema, or Missing for undefined.
peekStudySchema(c, studyName) ==
    LET e == MapGet(c, keyOf(studyName), NoEntry)
    IN  IF e # NoEntry /\ e.ok THEN e.schema ELSE NoEntry

\* The cache after clearStudyCache(arg); arg is Missing when omitted.
\* `!studyName` holds for the omitted argument and for the empty string.
clearStudyCache(c, arg) ==
    IF arg = Missing \/ arg = <<>> THEN <<>> ELSE MapDelete(c, keyOf(arg))

\* The keys clearStudyCache(arg) drops.
Cleared(c, arg) == MapKeys(c) \ MapKeys(clearStudyCache(c, arg))

ClearStudyCache(arg) ==
    /\ cache # <<>>
    /\ cache' = clearStudyCache(cache, arg)
    /\ queriesSince' = [k \in Keys |-> IF k \in Cleared(cache, arg) THEN 0 ELSE queriesSince[k]]
    /\ okSettled' = [k \in Keys |-> IF k \in Cleared(cache, arg) THEN {} ELSE okSettled[k]]
    /\ errSettled' = [k \in Keys |-> IF k \in Cleared(cache, arg) THEN {} ELSE errSettled[k]]
    /\ UNCHANGED <<gateVars, nextObj, callVars, nDirect, pfVars, llmVars, chartVars, batchVars, uiVars, lastRead, bridgeVars>>


(* -------------------------- searchCachedInputs ------------------------ *)

\* The queries searchCachedInputs is called with.
Queries == { <<>>, <<" ">>, <<"R","S">>, <<"s","r","c">>, <<"z">> }

\* Does the input match the lower-cased query on name, localizedName or id.
InputMatches(input, q) ==
    \/ includes(toLowerCase(input.name), q)
    \/ includes(toLowerCase(input.localizedName), q)
    \/ includes(toLowerCase(input.id), q)

\* A hit {study, input}; ref is the identity of the input object: the schema
\* object it belongs to and its place there.
Hit(schema, j) == [study |-> schema.name, input |-> schema.inputs[j], ref |-> <<schema.obj, j>>]

\* Mutant: no `continue` after a match on the study name.
EntryHitsNoContinue(e, q) ==
    IF ~e.ok THEN <<>>
    ELSE LET all == [j \in 1..Len(e.schema.inputs) |-> Hit(e.schema, j)]
         IN  (IF includes(toLowerCase(e.schema.name), q) THEN all ELSE <<>>)
             \o SelectSeq(all, LAMBDA h : InputMatches(h.input, q))

\* The hits one cache entry adds: none for a failure entry; every input when
\* the study name matches; else the inputs that match.
EntryHits(e, q) ==
    IF ~e.ok THEN <<>>
    ELSE IF includes(toLowerCase(e.schema.name), q)
         THEN [j \in 1..Len(e.schema.inputs) |-> Hit(e.schema, j)]
    ELSE LET all == [j \in 1..Len(e.schema.inputs) |-> Hit(e.schema, j)]
         IN  SelectSeq(all, LAMBDA h : InputMatches(h.input, q))

RECURSIVE HitsFrom(_, _, _)
HitsFrom(c, i, q) ==
    IF i > Len(c) THEN <<>> ELSE EntryHits(c[i].value, q) \o HitsFrom(c, i + 1, q)

searchCachedInputs(c, query) == HitsFrom(c, 1, toLowerCase(trim(query)))

\* The names hasStudy and peekStudySchema are called with.
ReadNames == {RsiPadded, EmptyName}

\* The application reads the cache: hasStudy, peekStudySchema or
\* searchCachedInputs; lastRead is what it got.
ReadCache ==
    /\ \/ \E n \in ReadNames :
            lastRead' = [op |-> "hasStudy", arg |-> n, out |-> <<hasStudy(cache, n)>>]
       \/ \E n \in ReadNames :
            lastRead' = [op |-> "peekStudySchema", arg |-> n, out |-> <<peekStudySchema(cache, n)>>]
       \/ \E q \in Queries :
            lastRead' = [op |-> "searchCachedInputs", arg |-> q, out |-> searchCachedInputs(cache, q)]
    /\ UNCHANGED <<gateVars, cache, nextObj, callVars, nDirect, histVars, pfVars, llmVars, chartVars, batchVars, uiVars, bridgeVars>>

(* ------------------------------- bridge ------------------------------- *)

NoWidget == [null |-> TRUE]
Widget(i) == [widget |-> i]
\* The widgets the chart component creates, one after the other.
Widgets == {Widget(1), Widget(2)}

\* A falsy result of createStudy or createShape, and the undefined of `?.`.
NoHandle == [falsy |-> TRUE]
\* null
Null == [null |-> TRUE]
\* The `results` array that drawPattern returns.
PatternResults == [results |-> "array"]

DigitChars == <<"0","1","2","3","4","5","6","7","8","9">>
\* `${n}` for a one-digit n.
DecimalOf(n) == <<DigitChars[n + 1]>>

SUPPORT == <<"S","U","P","P","O","R","T">>

\* The levels drawSupportResistanceLevel is called with.
Levels == {[type |-> SUPPORT, level |-> 1]}
\* The keys removeIndicator is called with.
IndicatorKeys == {RSI, MACD}

\* The operations the application starts.
Operations ==
    {[name |-> "addRSI"]}
    \cup {[name |-> "drawSupportResistanceLevel", level |-> l] : l \in Levels}
    \cup {[name |-> "removeIndicator", key |-> k] : k \in IndicatorKeys}

Task(i) == <<"task", i>>
Tasks == {Task(i) : i \in 1..MaxTasks}

Pending == [state |-> "pending"]
Resolved(v) == [state |-> "resolved", value |-> v]
Rejected(e) == [state |-> "rejected", error |-> e]

ChartNotAvailable == <<"Chart not available">>
WidgetThrew == <<"widget error">>

\* Mutant: _resolve() releases the continuations last-in first-out.
RegisterWidgetReleasesBackwards(w) ==
    /\ widgetRef' = w
    /\ chartRef' = w
    /\ readyResolved' = TRUE
    /\ mq' = IF readyResolved THEN mq
             ELSE mq \o [i \in 1..Len(readyWaiters) |->
                            readyWaiters[Len(readyWaiters) + 1 - i]]
    /\ readyWaiters' = <<>>
    /\ UNCHANGED <<cache, nextObj, callVars, nDirect, histVars, pfVars, llmVars, chartVars,
                   batchVars, uiVars, lastRead, tableVars, taskVars, widgetVars>>

\* Mutant: _resolve() forgets the continuations that were waiting.
RegisterWidgetDropsWaiters(w) ==
    /\ widgetRef' = w
    /\ chartRef' = w
    /\ readyResolved' = TRUE
    /\ mq' = mq
    /\ readyWaiters' = <<>>
    /\ UNCHANGED <<cache, nextObj, callVars, nDirect, histVars, pfVars, llmVars, chartVars, batchVars, uiVars, lastRead,
                   tableVars, taskVars, widgetVars>>

\* registerWidget(widget): keep the widget and its chart; _resolve() releases,
\* in order, what awaits `ready` (a second _resolve does nothing).
RegisterWidget(w) ==
    /\ widgetRef' = w
    /\ chartRef' = w
    /\ readyResolved' = TRUE
    /\ mq' = IF readyResolved THEN mq ELSE mq \o readyWaiters
    /\ readyWaiters' = <<>>
    /\ UNCHANGED <<cache, nextObj, callVars, nDirect, histVars, pfVars, llmVars, chartVars, batchVars, uiVars, lastRead,
                   tableVars, taskVars, widgetVars>>

\* Mutant: unregistering replaces `ready` by a fresh unresolved promise.
UnregisterWidgetClosesGate ==
    /\ widgetRef' = NoWidget
    /\ chartRef' = NoWidget
    /\ appliedIndicators' = <<>>
    /\ appliedPatterns' = <<>>
    /\ appliedAnnotations' = <<>>
    /\ appliedPriceTargets' = <<>>
    /\ readyResolved' = FALSE
    /\ UNCHANGED <<readyWaiters, mq, cache, nextObj, callVars, nDirect, histVars, pfVars, llmVars, chartVars, batchVars, uiVars,
                   lastRead, taskVars, widgetVars>>

\* Mutant: unregistering leaves appliedAnnotations as it is.
UnregisterWidgetKeepsAnnotations ==
    /\ widgetRef' = NoWidget
    /\ chartRef' = NoWidget
    /\ appliedIndicators' = <<>>
    /\ appliedPatterns' = <<>>
    /\ appliedPriceTargets' = <<>>
    /\ UNCHANGED <<gateVars, cache, nextObj, callVars, nDirect, histVars, pfVars, llmVars,
                   chartVars, batchVars, uiVars, lastRead, taskVars, widgetVars, appliedAnnotations>>

\* unregisterWidget(): drop the references and empty the four tables.
UnregisterWidget ==
    /\ widgetRef' = NoWidget
    /\ chartRef' = NoWidget
    /\ appliedIndicators' = <<>>
    /\ appliedPatterns' = <<>>
    /\ appliedAnnotations' = <<>>
    /\ appliedPriceTargets' = <<>>
    /\ UNCHANGED <<gateVars, cache, nextObj, callVars, nDirect, histVars, pfVars, llmVars, chartVars, batchVars, uiVars, lastRead,
                   taskVars, widgetVars>>

\* The application calls a bridge operation: it runs up to `await ready`.
Invoke(op) ==
    /\ nTasks < MaxTasks
    /\ nTasks' = nTasks + 1
    /\ tpc' = [tpc EXCEPT ![Task(nTasks + 1)] = "awaitReady"]
    /\ top' = [top EXCEPT ![Task(nTasks + 1)] = op]
    /\ tout' = [tout EXCEPT ![Task(nTasks + 1)] = Pending]
    /\ IF readyResolved
       THEN mq' = Append(mq, Task(nTasks + 1)) /\ UNCHANGED readyWaiters
       ELSE readyWaiters' = Append(readyWaiters, Task(nTasks + 1)) /\ UNCHANGED mq
    /\ UNCHANGED <<readyResolved, cache, nextObj, callVars, nDirect, histVars, pfVars, llmVars, chartVars, batchVars, uiVars,
                   lastRead, widgetRef, chartRef, tableVars, widgetVars>>

\* What a creation call on the widget does: it hands back a new entity, hands
\* back something falsy, or throws.
CreateOutcomes == {"entity", "falsy", "throws"}
\* What removeEntity does: it returns or it throws.
RemoveOutcomes == {"returns", "throws"}

NewEntity == [chart |-> chartRef, id |-> nextHandle]

\* The effect on the widget side of a creation call with outcome r.
Created(method, r) ==
    /\ widgetCalls' = Append(widgetCalls, [chart |-> chartRef, method |-> method])
    /\ nextHandle' = IF r = "entity" THEN nextHandle + 1 ELSE nextHandle
    /\ entities' = IF r = "entity" THEN entities \cup {NewEntity} ELSE entities
    /\ studyIds' = IF r = "entity" /\ method = "createStudy"
                   THEN studyIds \cup {nextHandle} ELSE studyIds

\* addRSI after `await ready`: chartRef?.createStudy(...), and the study,
\* when truthy, goes into appliedIndicators under the fixed key.
AddStudyBody(t, key) ==
    IF chartRef = NoWidget
    THEN /\ tout' = [tout EXCEPT ![t] = Resolved(NoHandle)]
         /\ UNCHANGED <<tableVars, widgetVars>>
    ELSE \E r \in CreateOutcomes :
           /\ Created("createStudy", r)
           /\ tout' = [tout EXCEPT ![t] =
                         IF r = "throws" THEN Rejected(WidgetThrew)
                         ELSE IF r = "entity" THEN Resolved(NewEntity)
                         ELSE Resolved(NoHandle)]
           /\ appliedIndicators' = IF r = "entity"
                                   THEN MapSet(appliedIndicators, key, NewEntity)
                                   ELSE appliedIndicators
           /\ UNCHANGED <<appliedPatterns, appliedAnnotations, appliedPriceTargets>>

\* `${level.type.toLowerCase()}_${level.level}`
LevelPatternId(level) == toLowerCase(level.type) \o <<"_">> \o DecimalOf(level.level)

\* drawSupportResistanceLevel after `await ready`.
DrawLevelBody(t, level) ==
    IF chartRef = NoWidget
    THEN /\ tout' = [tout EXCEPT ![t] = Rejected(ChartNotAvailable)]
         /\ UNCHANGED <<tableVars, widgetVars>>
    ELSE \E r \in CreateOutcomes :
           /\ Created("createShape", r)
           /\ tout' = [tout EXCEPT ![t] =
                         IF r = "throws" THEN Rejected(WidgetThrew)
                         ELSE IF r = "entity"
                              THEN Resolved([id |-> LevelPatternId(level), shape |-> NewEntity])
                         ELSE Resolved(NoHandle)]
           /\ appliedPatterns' = IF r = "entity"
                                 THEN MapSet(appliedPatterns, LevelPatternId(level), NewEntity)
                                 ELSE appliedPatterns
           /\ UNCHANGED <<appliedIndicators, appliedAnnotations, appliedPriceTargets>>

\* Mutant: `if (chartRef)`, the study not looked at.
RemovesAnyIndicator(table, key, chart) == chart # NoWidget

\* Does removeIndicator reach the widget: `if (study && chartRef)`.
RemovesIndicator(table, key, chart) == MapHas(table, key) /\ chart # NoWidget

\* removeIndicator after `await ready`: look the study up; when there is one
\* and a chart, removeEntity(study), then delete the entry.
RemoveIndicatorBody(t, key) ==
    IF ~RemovesIndicator(appliedIndicators, key, chartRef)
    THEN /\ tout' = [tout EXCEPT ![t] = Resolved(NoHandle)]
         /\ UNCHANGED <<tableVars, widgetVars>>
    ELSE \E r \in RemoveOutcomes :
           LET study == MapGet(appliedIndicators, key, NoHandle)
           IN  /\ widgetCalls' = Append(widgetCalls, [chart |-> chartRef, method |-> "removeEntity"])
               /\ entities' = IF r = "returns" THEN entities \ {study} ELSE entities
               /\ appliedIndicators' = IF r = "returns"
                                       THEN MapDelete(appliedIndicators, key)
                                       ELSE appliedIndicators
               /\ tout' = [tout EXCEPT ![t] =
                             IF r = "returns" THEN Resolved(NoHandle) ELSE Rejected(WidgetThrew)]
               /\ UNCHANGED <<appliedPatterns, appliedAnnotations, appliedPriceTargets, nextHandle, studyIds>>


(* ---------------------- further bridge operations --------------------- *)

TARGET == <<"T","A","R","G","E","T">>
\* `${type}_${period}` of addMovingAverage(20, "EMA")
EMA_20 == <<"E","M","A","_","2","0">>
TRIANGLE_ASCENDING == <<"TRIANGLE_ASCENDING">>
TRIANGLE_DESCENDING == <<"TRIANGLE_DESCENDING">>
TRIANGLE_SYMMETRICAL == <<"TRIANGLE_SYMMETRICAL">>
CHANNEL_UP == <<"CHANNEL_UP">>
CHANNEL_DOWN == <<"CHANNEL_DOWN">>
HEAD_AND_SHOULDERS == <<"HEAD_AND_SHOULDERS">>
DOUBLE_TOP == <<"DOUBLE_TOP">>
DOUBLE_BOTTOM == <<"DOUBLE_BOTTOM">>
TREND_LINE == <<"TREND_LINE">>

\* The price targets drawPriceTarget is called with.
Targets == {[type |-> TARGET, level |-> 1]}
\* The indicator names applyIndicator is called with.
ConfigNames == {RSI}

\* JavaScript values of indicator parameters: a number, a string, undefined.
Num(n) == [num |-> n]
Str(s) == [str |-> s]
Undefined == [undefined |-> TRUE]
\* The values `||` takes for false.
Falsy(v) == v \in {Undefined, Num(0), Str(<<>>)}
\* a || b
Or(a, b) == IF Falsy(a) THEN b ELSE a
\* An object literal is a sequence of [key, value] in insertion order, read
\* with MapGet; obj.k of an object without k is undefined.
Prop(obj, k) == MapGet(obj, k, Undefined)
\* { ...a, ...b }: a's properties, then b's over them, in order.
RECURSIVE Spread(_, _)
Spread(a, b) ==
    IF b = <<>> THEN a ELSE Spread(MapSet(a, Head(b).key, Head(b).value), Tail(b))

MovingAverage == <<"Moving Average">>
BollingerBands == <<"Bollinger Bands">>
Stochastic == <<"Stochastic">>
VWAP == <<"V","W","A","P">>
CLOSE == <<"close">>

\* The `optimizations` literal of optimizeIndicatorParameters, as built from
\* baseParams on each call.
optimizations(baseParams) ==
    << [key |-> RSI, value |->
          << [key |-> "length", value |-> Or(Prop(baseParams, "length"), Num(14))] >>],
       [key |-> MACD, value |->
          << [key |-> "in_0", value |-> Or(Prop(baseParams, "in_0"), Num(12))],
             [key |-> "in_1", value |-> Or(Prop(baseParams, "in_1"), Num(26))],
             [key |-> "in_2", value |-> Or(Prop(baseParams, "in_2"), Num(9))],
             [key |-> "in_3", value |-> Or(Prop(baseParams, "in_3"), Str(CLOSE))] >>],
       [key |-> MovingAverage, value |->
          << [key |-> "length", value |-> Or(Prop(baseParams, "length"), Num(20))] >>],
       [key |-> BollingerBands, value |->
          << [key |-> "length", value |-> Or(Prop(baseParams, "length"), Num(20))],
             [key |-> "mult", value |-> Or(Prop(baseParams, "mult"), Num(2))] >>],
       [key |-> Stochastic, value |->
          << [key |-> "k", value |-> Or(Prop(baseParams, "k"), Num(14))],
             [key |-> "d", value |-> Or(Prop(baseParams, "d"), Num(3))] >>] >>

\* optimizeIndicatorParameters(indicatorName, baseParams):
\* { ...baseParams, ...(optimizations[indicatorName] || {}) }
optimizeIndicatorParameters(indicatorName, baseParams) ==
    Spread(baseParams, MapGet(optimizations(baseParams), indicatorName, <<>>))

\* The parameter values a caller supplies.
ParamValues == {Num(0), Num(7), Str(<<>>)}
\* The configs applyIndicator is called with: config.name and
\* config.parameters.
Configs ==
    {[name |-> RSI, parameters |-> <<>>]}
    \cup {[name |-> n, parameters |-> << [key |-> "length", value |-> v] >>] :
             n \in {RSI, VWAP}, v \in ParamValues}
    \cup {[name |-> BollingerBands,
           parameters |-> << [key |-> "mult", value |-> v],
                             [key |-> "source", value |-> Str(CLOSE)] >>] :
             v \in ParamValues}
\* Date.now(): two draws fall in the same millisecond or they do not.
Times == {1, 2}
\* The patterns drawPattern is called with: a type and a number of coordinates.
Patterns == {[type |-> TRIANGLE_ASCENDING, n |-> 4], [type |-> TREND_LINE, n |-> 1]}

\* Operations that start when the gate opens and run in one synchronous piece.
OneStepNames ==
    {"addRSI", "addMACD", "addMovingAverage", "applyIndicator", "resetChart", "removeAllStudies", "removeIndicator",
     "removePattern", "removePriceTarget", "clearAllIndicators", "clearAllPatterns",
     "clearAllPriceTargets", "drawTrendLine", "drawSupportResistanceLevel"}

\* A call on the registered chart, as logged.
Call(method) == [chart |-> chartRef, method |-> method]

\* The effect on the widget side of applyIndicator's createStudy call, which
\* is logged with the inputs it was handed.
CreatedStudy(inputs, r) ==
    /\ widgetCalls' = Append(widgetCalls, [chart |-> chartRef, method |-> "createStudy",
                                           inputs |-> inputs])
    /\ nextHandle' = IF r = "entity" THEN nextHandle + 1 ELSE nextHandle
    /\ entities' = IF r = "entity" THEN entities \cup {NewEntity} ELSE entities
    /\ studyIds' = IF r = "entity" THEN studyIds \cup {nextHandle} ELSE studyIds

\* applyIndicator after `await ready`: throws without a chart; else
\* createStudy with the optimized parameters, and the study, when truthy, is
\* stored under config.name.
ApplyIndicatorBody(t, config) ==
    IF chartRef = NoWidget
    THEN /\ tout' = [tout EXCEPT ![t] = Rejected(ChartNotAvailable)]
         /\ UNCHANGED <<tableVars, widgetVars>>
    ELSE \E r \in CreateOutcomes :
           /\ CreatedStudy(optimizeIndicatorParameters(config.name, config.parameters), r)
           /\ tout' = [tout EXCEPT ![t] =
                         IF r = "throws" THEN Rejected(WidgetThrew)
                         ELSE IF r = "entity" THEN Resolved(NewEntity)
                         ELSE Resolved(NoHandle)]
           /\ appliedIndicators' = IF r = "entity"
                                   THEN MapSet(appliedIndicators, config.name, NewEntity)
                                   ELSE appliedIndicators
           /\ UNCHANGED <<appliedPatterns, appliedAnnotations, appliedPriceTargets>>

\* resetChart after `await ready`: chartRef?.resetData(), then the four
\* tables are cleared; what resetData throws leaves before the clears.
ResetChartBody(t) ==
    \E r \in RemoveOutcomes :
        LET called == chartRef # NoWidget
            threw == called /\ r = "throws"
        IN  /\ called \/ r = "returns"
            /\ widgetCalls' = IF called THEN Append(widgetCalls, Call("resetData"))
                              ELSE widgetCalls
            /\ tout' = [tout EXCEPT ![t] =
                          IF threw THEN Rejected(WidgetThrew) ELSE Resolved(NoHandle)]
            /\ appliedIndicators' = IF threw THEN appliedIndicators ELSE <<>>
            /\ appliedPatterns' = IF threw THEN appliedPatterns ELSE <<>>
            /\ appliedAnnotations' = IF threw THEN appliedAnnotations ELSE <<>>
            /\ appliedPriceTargets' = IF threw THEN appliedPriceTargets ELSE <<>>
            /\ UNCHANGED <<nextHandle, entities, studyIds>>

\* What `chartRef.removeAllStudies?.()` does: the chart has no such method,
\* or the call removes every study of the chart, or it throws.
RemoveAllOutcomes == {"absent", "removes", "throws"}

\* The studies alive on chart.
StudiesOn(chart, alive) == {e \in alive : e.chart = chart /\ e.id \in studyIds}

\* removeAllStudies after `await ready`: returns without a chart; else the
\* chart's removeAllStudies is tried, what it throws is caught and logged,
\* and appliedIndicators is cleared.
RemoveAllStudiesBody(t) ==
    /\ tout' = [tout EXCEPT ![t] = Resolved(NoHandle)]
    /\ IF chartRef = NoWidget
       THEN UNCHANGED <<tableVars, widgetVars>>
       ELSE \E r \in RemoveAllOutcomes :
              /\ widgetCalls' = IF r = "absent" THEN widgetCalls
                                ELSE Append(widgetCalls, Call("removeAllStudies"))
              /\ entities' = IF r = "removes" THEN entities \ StudiesOn(chartRef, entities)
                             ELSE entities
              /\ appliedIndicators' = <<>>
              /\ UNCHANGED <<appliedPatterns, appliedAnnotations, appliedPriceTargets,
                             nextHandle, studyIds>>

\* The widget side of a targeted removal: removeEntity(handle), returning or
\* throwing.
Removed(handle, r) ==
    /\ widgetCalls' = Append(widgetCalls,
                         [chart |-> chartRef, method |-> "removeEntity", entity |-> handle])
    /\ entities' = IF r = "returns" THEN entities \ {handle} ELSE entities
    /\ UNCHANGED <<nextHandle, studyIds>>

\* The table after a targeted removal whose removeEntity call ended as r: the
\* delete follows the call and is not reached when it throws.
AfterRemoval(table, key, r) == IF r = "returns" THEN MapDelete(table, key) ELSE table

\* removePattern after `await ready`.
RemovePatternBody(t, key) ==
    IF ~RemovesIndicator(appliedPatterns, key, chartRef)
    THEN /\ tout' = [tout EXCEPT ![t] = Resolved(NoHandle)]
         /\ UNCHANGED <<tableVars, widgetVars>>
    ELSE \E r \in RemoveOutcomes :
           /\ Removed(MapGet(appliedPatterns, key, NoHandle), r)
           /\ appliedPatterns' = AfterRemoval(appliedPatterns, key, r)
           /\ tout' = [tout EXCEPT ![t] =
                         IF r = "returns" THEN Resolved(NoHandle) ELSE Rejected(WidgetThrew)]
           /\ UNCHANGED <<appliedIndicators, appliedAnnotations, appliedPriceTargets>>

\* removePriceTarget after `await ready`.
RemovePriceTargetBody(t, key) ==
    IF ~RemovesIndicator(appliedPriceTargets, key, chartRef)
    THEN /\ tout' = [tout EXCEPT ![t] = Resolved(NoHandle)]
         /\ UNCHANGED <<tableVars, widgetVars>>
    ELSE \E r \in RemoveOutcomes :
           /\ Removed(MapGet(appliedPriceTargets, key, NoHandle), r)
           /\ appliedPriceTargets' = AfterRemoval(appliedPriceTargets, key, r)
           /\ tout' = [tout EXCEPT ![t] =
                         IF r = "returns" THEN Resolved(NoHandle) ELSE Rejected(WidgetThrew)]
           /\ UNCHANGED <<appliedIndicators, appliedPatterns, appliedAnnotations>>

\* The removeEntity calls of a clearAll loop: one per entry, in table order.
RemoveCalls(table) ==
    [i \in 1..Len(table) |->
        [chart |-> chartRef, method |-> "removeEntity", entity |-> table[i].value]]

\* Mutant: the loop has no try/catch, the first throw ends it.
ClearedAllUntilThrow(t, table, bad) ==
    LET stop == IF bad = {} THEN Len(table)
                ELSE CHOOSE i \in bad : \A j \in bad : i <= j
    IN  /\ widgetCalls' = widgetCalls \o SubSeq(RemoveCalls(table), 1, stop)
        /\ entities' = entities \ {table[i].value : i \in (1..stop) \ bad}
        /\ tout' = [tout EXCEPT ![t] =
                      IF bad = {} THEN Resolved(NoHandle) ELSE Rejected(WidgetThrew)]
        /\ UNCHANGED <<nextHandle, studyIds>>

\* The widget side of a clearAll loop over table; bad holds the places whose
\* removeEntity call throws (caught and logged).
ClearedAll(t, table, bad) ==
    /\ widgetCalls' = widgetCalls \o RemoveCalls(table)
    /\ entities' = entities \ {table[i].value : i \in (1..Len(table)) \ bad}
    /\ tout' = [tout EXCEPT ![t] = Resolved(NoHandle)]
    /\ UNCHANGED <<nextHandle, studyIds>>

\* clearAllIndicators after `await ready`.
ClearAllIndicatorsBody(t) ==
    IF chartRef = NoWidget
    THEN /\ tout' = [tout EXCEPT ![t] = Resolved(NoHandle)]
         /\ UNCHANGED <<tableVars, widgetVars>>
    ELSE \E bad \in SUBSET (1..Len(appliedIndicators)) :
           /\ ClearedAll(t, appliedIndicators, bad)
           /\ appliedIndicators' = <<>>
           /\ UNCHANGED <<appliedPatterns, appliedAnnotations, appliedPriceTargets>>

\* clearAllPatterns after `await ready`.
ClearAllPatternsBody(t) ==
    IF chartRef = NoWidget
    THEN /\ tout' = [tout EXCEPT ![t] = Resolved(NoHandle)]
         /\ UNCHANGED <<tableVars, widgetVars>>
    ELSE \E bad \in SUBSET (1..Len(appliedPatterns)) :
           /\ ClearedAll(t, appliedPatterns, bad)
           /\ appliedPatterns' = <<>>
           /\ UNCHANGED <<appliedIndicators, appliedAnnotations, appliedPriceTargets>>

\* clearAllPriceTargets after `await ready`.
ClearAllPriceTargetsBody(t) ==
    IF chartRef = NoWidget
    THEN /\ tout' = [tout EXCEPT ![t] = Resolved(NoHandle)]
         /\ UNCHANGED <<tableVars, widgetVars>>
    ELSE \E bad \in SUBSET (1..Len(appliedPriceTargets)) :
           /\ ClearedAll(t, appliedPriceTargets, bad)
           /\ appliedPriceTargets' = <<>>
           /\ UNCHANGED <<appliedIndicators, appliedPatterns, appliedAnnotations>>

\* `trendline_${Date.now()}`
TrendLineId(ms) == <<"trendline_">> \o DecimalOf(ms)

\* Mutant: a shape already stored under the key is removed from the chart
\* before the new one takes its place.
TrendLineShapeReplacing(r, ms) ==
    /\ widgetCalls' = Append(widgetCalls, [chart |-> chartRef, method |-> "createShape"])
    /\ nextHandle' = IF r = "entity" THEN nextHandle + 1 ELSE nextHandle
    /\ studyIds' = studyIds
    /\ entities' = IF r = "entity"
                   THEN (entities \ {MapGet(appliedPatterns, TrendLineId(ms), NoHandle)})
                        \cup {NewEntity}
                   ELSE entities
    /\ appliedPatterns' = IF r = "entity"
                          THEN MapSet(appliedPatterns, TrendLineId(ms), NewEntity)
                          ELSE appliedPatterns
    /\ UNCHANGED <<appliedIndicators, appliedAnnotations, appliedPriceTargets>>

\* What drawTrendLine does on a chart: createShape, and the shape, when
\* truthy, goes into appliedPatterns under a key made of the time.
TrendLineShape(r, ms) ==
    /\ Created("createShape", r)
    /\ appliedPatterns' = IF r = "entity"
                          THEN MapSet(appliedPatterns, TrendLineId(ms), NewEntity)
                          ELSE appliedPatterns
    /\ UNCHANGED <<appliedIndicators, appliedAnnotations, appliedPriceTargets>>

\* Mutant: drawTrendLine without a chart returns null, as `chartRef?.` would.
DrawTrendLineSoft(t) ==
    IF chartRef = NoWidget
    THEN /\ tout' = [tout EXCEPT ![t] = Resolved(NoHandle)]
         /\ UNCHANGED <<tableVars, widgetVars>>
    ELSE \E r \in CreateOutcomes, ms \in Times :
           /\ TrendLineShape(r, ms)
           /\ tout' = [tout EXCEPT ![t] =
                         IF r = "throws" THEN Rejected(WidgetThrew)
                         ELSE IF r = "entity"
                              THEN Resolved([id |-> TrendLineId(ms), shape |-> NewEntity])
                         ELSE Resolved(NoHandle)]

\* drawTrendLine after `await ready`.
DrawTrendLineBody(t) ==
    IF chartRef = NoWidget
    THEN /\ tout' = [tout EXCEPT ![t] = Rejected(ChartNotAvailable)]
         /\ UNCHANGED <<tableVars, widgetVars>>
    ELSE \E r \in CreateOutcomes, ms \in Times :
           /\ TrendLineShape(r, ms)
           /\ tout' = [tout EXCEPT ![t] =
                         IF r = "throws" THEN Rejected(WidgetThrew)
                         ELSE IF r = "entity"
                              THEN Resolved([id |-> TrendLineId(ms), shape |-> NewEntity])
                         ELSE Resolved(NoHandle)]

\* The continuation of a bridge operation after `await ready`.
Body(t) ==
    /\ mq # <<>> /\ Head(mq) = t /\ tpc[t] = "awaitReady"
    /\ top[t].name \in OneStepNames
    /\ mq' = Tail(mq)
    /\ tpc' = [tpc EXCEPT ![t] = "done"]
    /\ CASE top[t].name = "addRSI" -> AddStudyBody(t, RSI)
         [] top[t].name = "addMACD" -> AddStudyBody(t, MACD)
         [] top[t].name = "addMovingAverage" -> AddStudyBody(t, EMA_20)
         [] top[t].name = "applyIndicator" -> ApplyIndicatorBody(t, top[t].config)
         [] top[t].name = "resetChart" -> ResetChartBody(t)
         [] top[t].name = "removeAllStudies" -> RemoveAllStudiesBody(t)
         [] top[t].name = "drawSupportResistanceLevel" -> DrawLevelBody(t, top[t].level)
         [] top[t].name = "drawTrendLine" -> DrawTrendLineBody(t)
         [] top[t].name = "removeIndicator" -> RemoveIndicatorBody(t, top[t].key)
         [] top[t].name = "removePattern" -> RemovePatternBody(t, top[t].key)
         [] top[t].name = "removePriceTarget" -> RemovePriceTargetBody(t, top[t].key)
         [] top[t].name = "clearAllIndicators" -> ClearAllIndicatorsBody(t)
         [] top[t].name = "clearAllPatterns" -> ClearAllPatternsBody(t)
         [] top[t].name = "clearAllPriceTargets" -> ClearAllPriceTargetsBody(t)
    /\ UNCHANGED <<readyResolved, readyWaiters, cache, nextObj, callVars, nDirect, histVars,
                   pfVars, llmVars, chartVars, batchVars, uiVars, lastRead, widgetRef, chartRef, top, nTasks>>

\* What is left alone by a step of a bridge operation.
StepFrame == <<readyResolved, readyWaiters, cache, nextObj, callVars, nDirect, histVars,
               pfVars, llmVars, chartVars, batchVars, uiVars, lastRead, widgetRef, chartRef, top, nTasks>>

\* What the widget's setSymbol and setResolution do: hand back a promise, or throw.
AsyncOutcomes == {"promise", "throws"}
TypeError == <<"TypeError">>

\* setSymbol after `await ready`: returns without a chart, else calls
\* chartRef.setSymbol(symbol) and awaits its promise.
SetSymbolStart(t) ==
    /\ mq # <<>> /\ Head(mq) = t /\ tpc[t] = "awaitReady" /\ top[t].name = "setSymbol"
    /\ mq' = Tail(mq)
    /\ IF chartRef = NoWidget
       THEN /\ tpc' = [tpc EXCEPT ![t] = "done"]
            /\ tout' = [tout EXCEPT ![t] = Resolved(NoHandle)]
            /\ UNCHANGED widgetCalls
       ELSE \E r \in AsyncOutcomes :
              /\ widgetCalls' = Append(widgetCalls, Call("setSymbol"))
              /\ tpc' = [tpc EXCEPT ![t] = IF r = "throws" THEN "done" ELSE "awaitSetSymbol"]
              /\ tout' = [tout EXCEPT ![t] = IF r = "throws" THEN Rejected(WidgetThrew) ELSE @]
    /\ UNCHANGED <<StepFrame, tableVars, nextHandle, entities, studyIds>>

\* The widget settles the promise a setSymbol operation awaits: the operation
\* goes on (a microtask) or rejects with what the promise rejected with.
WidgetSettles(t) ==
    /\ tpc[t] \in {"awaitSetSymbol", "awaitSetResolution"}
    /\ \E fulfilled \in BOOLEAN :
         IF ~fulfilled
         THEN /\ tpc' = [tpc EXCEPT ![t] = "done"]
              /\ tout' = [tout EXCEPT ![t] = Rejected(WidgetThrew)]
              /\ UNCHANGED mq
         ELSE IF tpc[t] = "awaitSetSymbol"
         THEN /\ tpc' = [tpc EXCEPT ![t] = "setResolution"]
              /\ mq' = Append(mq, t)
              /\ UNCHANGED tout
         ELSE /\ tpc' = [tpc EXCEPT ![t] = "done"]
              /\ tout' = [tout EXCEPT ![t] = Resolved(NoHandle)]
              /\ UNCHANGED mq
    /\ UNCHANGED <<StepFrame, tableVars, widgetVars>>

\* setSymbol after `await chartRef.setSymbol(symbol)`: with an interval,
\* chartRef.setResolution(interval) on whatever chartRef is by now.
SetResolutionStep(t) ==
    /\ mq # <<>> /\ Head(mq) = t /\ tpc[t] = "setResolution"
    /\ mq' = Tail(mq)
    /\ IF top[t].interval = <<>>
       THEN /\ tpc' = [tpc EXCEPT ![t] = "done"]
            /\ tout' = [tout EXCEPT ![t] = Resolved(NoHandle)]
            /\ UNCHANGED widgetCalls
       ELSE IF chartRef = NoWidget
       THEN /\ tpc' = [tpc EXCEPT ![t] = "done"]
            /\ tout' = [tout EXCEPT ![t] = Rejected(TypeError)]
            /\ UNCHANGED widgetCalls
       ELSE \E r \in AsyncOutcomes :
              /\ widgetCalls' = Append(widgetCalls, Call("setResolution"))
              /\ tpc' = [tpc EXCEPT ![t] = IF r = "throws" THEN "done" ELSE "awaitSetResolution"]
              /\ tout' = [tout EXCEPT ![t] = IF r = "throws" THEN Rejected(WidgetThrew) ELSE @]
    /\ UNCHANGED <<StepFrame, tableVars, nextHandle, entities, studyIds>>

\* `${target.type.toLowerCase()}_${target.level}`
PriceTargetId(target) == toLowerCase(target.type) \o <<"_">> \o DecimalOf(target.level)
\* `label_${target.type.toLowerCase()}_${target.level}`
PriceTargetLabelId(target) == <<"label_">> \o PriceTargetId(target)

\* drawPriceTarget after `await ready`: throws without a chart; else the line
\* is created and, when truthy, stored; then addPriceTargetLabel is called,
\* which awaits the gate in its turn.
DrawPriceTargetStart(t) ==
    /\ mq # <<>> /\ Head(mq) = t /\ tpc[t] = "awaitReady" /\ top[t].name = "drawPriceTarget"
    /\ IF chartRef = NoWidget
       THEN /\ tpc' = [tpc EXCEPT ![t] = "done"]
            /\ tout' = [tout EXCEPT ![t] = Rejected(ChartNotAvailable)]
            /\ mq' = Tail(mq)
            /\ UNCHANGED <<tableVars, widgetVars>>
       ELSE \E r \in CreateOutcomes :
              /\ Created("createShape", r)
              /\ tpc' = [tpc EXCEPT ![t] = IF r = "entity" THEN "label" ELSE "done"]
              /\ mq' = IF r = "entity" THEN Append(Tail(mq), t) ELSE Tail(mq)
              /\ tout' = [tout EXCEPT ![t] =
                            IF r = "throws" THEN Rejected(WidgetThrew)
                            ELSE IF r = "entity" THEN @ ELSE Resolved(Null)]
              /\ appliedPriceTargets' =
                    IF r = "entity"
                    THEN MapSet(appliedPriceTargets, PriceTargetId(top[t].target), NewEntity)
                    ELSE appliedPriceTargets
              /\ UNCHANGED <<appliedIndicators, appliedPatterns, appliedAnnotations>>
    /\ UNCHANGED StepFrame

\* addPriceTargetLabel after `await ready`, and the return of drawPriceTarget:
\* null without a chart; else the label is created and, when truthy, stored in
\* appliedAnnotations; what createShape throws rejects drawPriceTarget.
PriceTargetLabelStep(t) ==
    /\ mq # <<>> /\ Head(mq) = t /\ tpc[t] = "label"
    /\ mq' = Tail(mq)
    /\ tpc' = [tpc EXCEPT ![t] = "done"]
    /\ LET id == PriceTargetId(top[t].target)
       IN  IF chartRef = NoWidget
           THEN /\ tout' = [tout EXCEPT ![t] = Resolved([id |-> id, label |-> NoHandle])]
                /\ UNCHANGED <<tableVars, widgetVars>>
           ELSE \E r \in CreateOutcomes :
                  /\ Created("createShape", r)
                  /\ tout' = [tout EXCEPT ![t] =
                                IF r = "throws" THEN Rejected(WidgetThrew)
                                ELSE Resolved([id |-> id,
                                               label |-> IF r = "entity" THEN NewEntity
                                                         ELSE NoHandle])]
                  /\ appliedAnnotations' =
                        IF r = "entity"
                        THEN MapSet(appliedAnnotations, PriceTargetLabelId(top[t].target),
                                    NewEntity)
                        ELSE appliedAnnotations
                  /\ UNCHANGED <<appliedIndicators, appliedPatterns, appliedPriceTargets>>
    /\ UNCHANGED StepFrame

\* Mutant: the pattern helpers draw without looking at how many coordinates
\* there are.
LineCountUnguarded(type, n) ==
    IF type \in {TRIANGLE_ASCENDING, TRIANGLE_DESCENDING, TRIANGLE_SYMMETRICAL,
                 CHANNEL_UP, CHANNEL_DOWN}
    THEN 2
    ELSE IF type = HEAD_AND_SHOULDERS THEN 1 + Max(0, n - 1)
    ELSE Max(0, n - 1)

\* How many drawTrendLine calls drawPattern makes for a pattern of this type
\* with n coordinates: the switch of drawPattern and the length checks of
\* drawTrianglePattern, drawChannelPattern, drawHeadAndShouldersPattern and
\* drawDoubleTopBottomPattern.
LineCount(type, n) ==
    IF type \in {TRIANGLE_ASCENDING, TRIANGLE_DESCENDING, TRIANGLE_SYMMETRICAL,
                 CHANNEL_UP, CHANNEL_DOWN}
    THEN (IF n < 4 THEN 0 ELSE 2)
    ELSE IF type = HEAD_AND_SHOULDERS
    THEN (IF n < 5 THEN 0 ELSE 1 + (n - 1))
    ELSE IF type \in {DOUBLE_TOP, DOUBLE_BOTTOM}
    THEN (IF n < 3 THEN 0 ELSE n - 1)
    ELSE Max(0, n - 1)

\* Where a drawPattern operation is: before its k-th drawTrendLine.
LinePos == <<"line1", "line2", "line3", "line4", "line5">>

\* Where drawPattern goes after k of its lines.
PatternNext(pattern, k) ==
    IF k < LineCount(pattern.type, pattern.n) THEN LinePos[k + 1]
    ELSE IF pattern.n > 0 THEN "annotation" ELSE "done"

\* `annotation_${pattern.type}_${Date.now()}`
AnnotationId(type, ms) == <<"annotation_">> \o type \o <<"_">> \o DecimalOf(ms)

\* drawPattern after `await ready`: throws without a chart, else goes to its
\* first drawTrendLine or to the annotation, each of which awaits the gate.
DrawPatternStart(t) ==
    /\ mq # <<>> /\ Head(mq) = t /\ tpc[t] = "awaitReady" /\ top[t].name = "drawPattern"
    /\ LET next == IF chartRef = NoWidget THEN "done" ELSE PatternNext(top[t].pattern, 0)
       IN  /\ tpc' = [tpc EXCEPT ![t] = next]
           /\ mq' = IF next = "done" THEN Tail(mq) ELSE Append(Tail(mq), t)
           /\ tout' = [tout EXCEPT ![t] =
                         IF chartRef = NoWidget THEN Rejected(ChartNotAvailable)
                         ELSE IF next = "done" THEN Resolved(PatternResults) ELSE @]
    /\ UNCHANGED <<StepFrame, tableVars, widgetVars>>

\* One drawTrendLine of a drawPattern operation, after `await ready`: what
\* it throws rejects drawPattern.
DrawPatternLine(t) ==
    /\ mq # <<>> /\ Head(mq) = t
    /\ \E k \in DOMAIN LinePos :
         /\ tpc[t] = LinePos[k]
         /\ IF chartRef = NoWidget
            THEN /\ tpc' = [tpc EXCEPT ![t] = "done"]
                 /\ mq' = Tail(mq)
                 /\ tout' = [tout EXCEPT ![t] = Rejected(ChartNotAvailable)]
                 /\ UNCHANGED <<tableVars, widgetVars>>
            ELSE \E r \in CreateOutcomes, ms \in Times :
                   LET next == IF r = "throws" THEN "done" ELSE PatternNext(top[t].pattern, k)
                   IN  /\ TrendLineShape(r, ms)
                       /\ tpc' = [tpc EXCEPT ![t] = next]
                       /\ mq' = IF next = "done" THEN Tail(mq) ELSE Append(Tail(mq), t)
                       /\ tout' = [tout EXCEPT ![t] =
                                     IF r = "throws" THEN Rejected(WidgetThrew)
                                     ELSE IF next = "done" THEN Resolved(PatternResults)
                                     ELSE @]
    /\ UNCHANGED StepFrame

\* The effect on the widget side of addPatternAnnotation's createShape call,
\* which is logged with the index of the coordinate it was placed at.
CreatedText(at, r) ==
    /\ widgetCalls' = Append(widgetCalls, [chart |-> chartRef, method |-> "createShape",
                                           shape |-> "text", at |-> at])
    /\ nextHandle' = IF r = "entity" THEN nextHandle + 1 ELSE nextHandle
    /\ entities' = IF r = "entity" THEN entities \cup {NewEntity} ELSE entities
    /\ UNCHANGED studyIds

\* addPatternAnnotation after `await ready`, and the return of drawPattern.
DrawPatternAnnotation(t) ==
    /\ mq # <<>> /\ Head(mq) = t /\ tpc[t] = "annotation"
    /\ mq' = Tail(mq)
    /\ tpc' = [tpc EXCEPT ![t] = "done"]
    /\ IF chartRef = NoWidget
       THEN /\ tout' = [tout EXCEPT ![t] = Resolved(PatternResults)]
            /\ UNCHANGED <<tableVars, widgetVars>>
       ELSE \E r \in CreateOutcomes, ms \in Times :
              /\ CreatedText(top[t].pattern.n \div 2, r)
              /\ tout' = [tout EXCEPT ![t] =
                            IF r = "throws" THEN Rejected(WidgetThrew)
                            ELSE Resolved(PatternResults)]
              /\ appliedAnnotations' =
                    IF r = "entity"
                    THEN MapSet(appliedAnnotations, AnnotationId(top[t].pattern.type, ms),
                                NewEntity)
                    ELSE appliedAnnotations
              /\ UNCHANGED <<appliedIndicators, appliedPatterns, appliedPriceTargets>>
    /\ UNCHANGED StepFrame

(* ------------------------- TradingViewChart --------------------------- *)

Charts == 1..MaxCharts
Run(i) == <<"run", i>>
NoRun == [chart |-> 0, pos |-> "idle", cancelled |-> FALSE]

\* The effect run of chart c that has not been cleaned up, if any.
LiveRuns(c) == {i \in 1..nRuns : runs[i].chart = c /\ ~runs[i].cancelled}

\* Mutant: no memo of the promise, every call before the library is loaded
\* appends a script element.
ScriptAppendedUnlessLoaded(tv, promise, elements) == ~tv

\* Does this call of ensureTradingViewScript append a script element:
\* window.TradingView is undefined, scriptPromise is null and no element
\* with the id exists.
ScriptAppended(tv, promise, elements) == ~tv /\ promise = "null" /\ elements = 0

\* The state of the promise ensureTradingViewScript returns.
EnsuredPromise(tv, promise) ==
    IF tv THEN "resolved" ELSE IF promise = "null" THEN "pending" ELSE promise

\* One effect run of chart c starts, rs being the runs so far and q the
\* microtask queue: ensureTradingViewScript() is called and its promise gets
\* the then and catch callbacks.
EffectStarts(c, rs, q) ==
    LET got == EnsuredPromise(windowTradingView, scriptPromise)
    IN  /\ nRuns < MaxRuns
        /\ nRuns' = nRuns + 1
        /\ scriptElements' =
              IF ScriptAppended(windowTradingView, scriptPromise, scriptElements)
              THEN scriptElements + 1 ELSE scriptElements
        /\ scriptPromise' =
              IF ~windowTradingView /\ scriptPromise = "null" THEN "pending"
              ELSE scriptPromise
        /\ runs' = [rs EXCEPT ![nRuns + 1] =
                      [chart |-> c, cancelled |-> FALSE,
                       pos |-> IF got = "rejected" THEN "done" ELSE "awaitScript"]]
        /\ mq' = IF got = "resolved" THEN Append(q, Run(nRuns + 1)) ELSE q

\* The runs after the cleanup of the live run of chart c: isCancelled = true.
Cancelled(c) ==
    [i \in 1..MaxRuns |-> IF i \in LiveRuns(c) THEN [runs[i] EXCEPT !.cancelled = TRUE]
                          ELSE runs[i]]

\* The rest of the cleanup of chart c: with a widget in widgetRef.current,
\* unregisterWidget(), widget.remove(), and widgetRef.current = null.
CleanedUp(c) ==
    IF chartWidget[c] = NoWidget
    THEN UNCHANGED <<chartWidget, widgetRef, chartRef, tableVars>>
    ELSE /\ chartWidget' = [chartWidget EXCEPT ![c] = NoWidget]
         /\ widgetRef' = NoWidget
         /\ chartRef' = NoWidget
         /\ appliedIndicators' = <<>>
         /\ appliedPatterns' = <<>>
         /\ appliedAnnotations' = <<>>
         /\ appliedPriceTargets' = <<>>

ChartFrame == <<cache, nextObj, callVars, nDirect, histVars, pfVars, llmVars, batchVars, uiVars,
                lastRead, taskVars, widgetVars>>

\* A TradingViewChart is mounted: its effect runs.
Mount(c) ==
    /\ LiveRuns(c) = {}
    /\ EffectStarts(c, runs, mq)
    /\ UNCHANGED <<ChartFrame, readyResolved, readyWaiters, windowTradingView, chartWidget,
                   widgetRef, chartRef, tableVars>>

\* A TradingViewChart is unmounted: the cleanup of its effect runs.
Unmount(c) ==
    /\ LiveRuns(c) # {}
    /\ runs' = Cancelled(c)
    /\ CleanedUp(c)
    /\ UNCHANGED <<ChartFrame, gateVars, scriptPromise, windowTradingView, scriptElements,
                   nRuns>>

\* symbol, interval or theme of a mounted TradingViewChart changes: the
\* cleanup of the effect runs, then the effect.
PropsChange(c) ==
    /\ LiveRuns(c) # {}
    /\ CleanedUp(c)
    /\ EffectStarts(c, Cancelled(c), mq)
    /\ UNCHANGED <<ChartFrame, readyResolved, readyWaiters, windowTradingView>>

\* The runs whose then callback waits for the script, oldest first.
AwaitingScript ==
    SelectSeq([i \in 1..nRuns |-> Run(i)], LAMBDA r : runs[r[2]].pos = "awaitScript")

\* script.onload: the promise resolves, the callbacks waiting on it are
\* queued; the library has defined window.TradingView, or it has not.
ScriptLoads ==
    /\ scriptPromise = "pending"
    /\ scriptPromise' = "resolved"
    /\ \E defined \in BOOLEAN : windowTradingView' = defined
    /\ mq' = mq \o AwaitingScript
    /\ UNCHANGED <<ChartFrame, readyResolved, readyWaiters, scriptElements, runs, chartWidget,
                   nRuns, widgetRef, chartRef, tableVars>>

\* script.onerror: the promise rejects, the catch callbacks only log.
ScriptFails ==
    /\ scriptPromise = "pending"
    /\ scriptPromise' = "rejected"
    /\ runs' = [i \in 1..MaxRuns |->
                  IF runs[i].pos = "awaitScript" THEN [runs[i] EXCEPT !.pos = "done"]
                  ELSE runs[i]]
    /\ UNCHANGED <<ChartFrame, gateVars, windowTradingView, scriptElements, chartWidget,
                   nRuns, widgetRef, chartRef, tableVars>>

\* What `new window.TradingView.widget(...)` gives: a widget with
\* onChartReady, a widget without, or an exception.
WidgetOutcomes == {"ready", "bare", "throws"}

\* The then callback of effect run i: nothing when cancelled or without the
\* library; else the widget is created and registerWidget is left to its
\* onChartReady callback, or called at once when the widget has none.
ScriptThen(i) ==
    /\ mq # <<>> /\ Head(mq) = Run(i) /\ runs[i].pos = "awaitScript"
    /\ IF runs[i].cancelled \/ ~windowTradingView
       THEN /\ runs' = [runs EXCEPT ![i].pos = "done"]
            /\ mq' = Tail(mq)
            /\ UNCHANGED <<chartWidget, widgetRef, chartRef, readyResolved, readyWaiters>>
       ELSE \E o \in WidgetOutcomes :
              /\ runs' = [runs EXCEPT ![i].pos =
                            IF o = "ready" THEN "awaitChartReady" ELSE "done"]
              /\ chartWidget' = IF o = "throws" THEN chartWidget
                                ELSE [chartWidget EXCEPT ![runs[i].chart] = Widget(i)]
              /\ IF o = "bare"
                 THEN /\ widgetRef' = Widget(i)
                      /\ chartRef' = Widget(i)
                      /\ readyResolved' = TRUE
                      /\ mq' = IF readyResolved THEN Tail(mq) ELSE Tail(mq) \o readyWaiters
                      /\ readyWaiters' = <<>>
                 ELSE /\ mq' = Tail(mq)
                      /\ UNCHANGED <<widgetRef, chartRef, readyResolved, readyWaiters>>
    /\ UNCHANGED <<ChartFrame, tableVars, scriptPromise, windowTradingView, scriptElements,
                   nRuns>>

\* The onChartReady callback of the widget of effect run i:
\* registerWidget(widgetRef.current), which with null stores null and then
\* throws on `widget.activeChart()`.
ChartReady(i) ==
    /\ runs[i].pos = "awaitChartReady"
    /\ runs' = [runs EXCEPT ![i].pos = "done"]
    /\ LET w == chartWidget[runs[i].chart]
       IN  /\ widgetRef' = w
           /\ IF w = NoWidget
              THEN UNCHANGED <<chartRef, gateVars>>
              ELSE /\ chartRef' = w
                   /\ readyResolved' = TRUE
                   /\ mq' = IF readyResolved THEN mq ELSE mq \o readyWaiters
                   /\ readyWaiters' = <<>>
    /\ UNCHANGED <<ChartFrame, tableVars, scriptPromise, windowTradingView, scriptElements,
                   chartWidget, nRuns>>

(* ------------- applyMultipleIndicators, drawMultiple... --------------- *)

\* No call.
NoTask == <<"task", 0>>

\* The calls of the three operations that take a list of items.
BatchOperations ==
    {[name |-> "applyMultipleIndicators", items |-> l] :
        l \in SeqsUpTo({[name |-> RSI, parameters |-> <<>>]}, MaxItems)}
    \cup {[name |-> "drawMultiplePatterns", items |-> l] : l \in SeqsUpTo(Patterns, MaxItems)}
    \cup {[name |-> "drawMultiplePriceTargets", items |-> l] : l \in SeqsUpTo(Targets, MaxItems)}

\* The single-item call the loop makes for an item.
ItemCall(name, item) ==
    CASE name = "applyMultipleIndicators" -> [name |-> "applyIndicator", config |-> item]
      [] name = "drawMultiplePatterns" -> [name |-> "drawPattern", pattern |-> item]
      [] name = "drawMultiplePriceTargets" -> [name |-> "drawPriceTarget", target |-> item]

\* Mutant: the catch block pushes nothing.
BatchPushedSkipsFailed(results, out) ==
    IF out.state = "rejected" THEN results ELSE Append(results, out.value)

\* try { results.push(await <single-item call>) } catch { results.push(null) }
BatchPushed(results, out) ==
    Append(results, IF out.state = "rejected" THEN Null ELSE out.value)

\* The head of the for-of loop of call t with `results` so far, n calls
\* started and q the microtask queue: past the last item the call returns
\* results; else the single-item call of the next item runs up to its
\* `await ready`.
BatchLoopHead(t, op, results, n, q) ==
    IF Len(results) >= Len(op.items)
    THEN /\ tpc' = [tpc EXCEPT ![t] = "done"]
         /\ top' = [top EXCEPT ![t] = op]
         /\ tout' = [tout EXCEPT ![t] = Resolved(results)]
         /\ nTasks' = n
         /\ mq' = q
         /\ UNCHANGED <<readyWaiters, batchChildren>>
    ELSE LET u == Task(n + 1)
         IN  /\ tpc' = [tpc EXCEPT ![t] = "awaitItem", ![u] = "awaitReady"]
             /\ top' = [top EXCEPT ![t] = op,
                                   ![u] = ItemCall(op.name, op.items[Len(results) + 1])]
             /\ tout' = [tout EXCEPT ![t] = Pending, ![u] = Pending]
             /\ nTasks' = n + 1
             /\ IF readyResolved
                THEN mq' = Append(q, u) /\ UNCHANGED readyWaiters
                ELSE readyWaiters' = Append(readyWaiters, u) /\ mq' = q
             /\ batchChildren' = Append(batchChildren, u)

\* What a step of one of the three operations leaves alone.
BatchFrame == <<readyResolved, cache, nextObj, callVars, nDirect, histVars, pfVars, llmVars,
                chartVars, uiVars, lastRead, widgetRef, chartRef, tableVars, widgetVars>>

\* The application calls one of the three operations:
\* applyMultipleIndicators runs up to its `await ready`, the other two
\* up to the `await ready` of their first single-item call.
InvokeBatch(op) ==
    /\ batchTask = NoTask
    /\ nTasks + 1 + Len(op.items) <= MaxTasks
    /\ batchTask' = Task(nTasks + 1)
    /\ batchResults' = <<>>
    /\ IF op.name = "applyMultipleIndicators"
       THEN /\ tpc' = [tpc EXCEPT ![Task(nTasks + 1)] = "awaitReady"]
            /\ top' = [top EXCEPT ![Task(nTasks + 1)] = op]
            /\ tout' = [tout EXCEPT ![Task(nTasks + 1)] = Pending]
            /\ nTasks' = nTasks + 1
            /\ IF readyResolved
               THEN mq' = Append(mq, Task(nTasks + 1)) /\ UNCHANGED readyWaiters
               ELSE readyWaiters' = Append(readyWaiters, Task(nTasks + 1)) /\ UNCHANGED mq
            /\ UNCHANGED batchChildren
       ELSE BatchLoopHead(Task(nTasks + 1), op, <<>>, nTasks + 1, mq)
    /\ UNCHANGED BatchFrame

\* applyMultipleIndicators after `await ready`: it enters its loop.
BatchLoop(t) ==
    /\ mq # <<>> /\ Head(mq) = t /\ tpc[t] = "awaitReady"
    /\ top[t].name = "applyMultipleIndicators"
    /\ BatchLoopHead(t, top[t], <<>>, nTasks, Tail(mq))
    /\ UNCHANGED <<batchTask, batchResults, BatchFrame>>

\* The single-item call that the loop awaits has settled: the loop pushes
\* its value, or null when it rejected, and goes to the next item.
BatchResume(t) ==
    /\ t = batchTask /\ tpc[t] = "awaitItem"
    /\ tpc[batchChildren[Len(batchChildren)]] = "done"
    /\ batchResults' = BatchPushed(batchResults, tout[batchChildren[Len(batchChildren)]])
    /\ BatchLoopHead(t, top[t], batchResults', nTasks, mq)
    /\ UNCHANGED <<batchTask, BatchFrame>>

(* ---------------------------- ChartContent --------------------------- *)

EMA20 == <<"EMA(20)">>

\* The names of the badges, in the order applyStrategy goes through them.
StrategyOrder == <<MACD, RSI, EMA20>>
StrategyNames == {MACD, RSI, EMA20}

\* The bridge call applyStrategy makes for a badge.
StrategyCall(name) ==
    IF name = MACD THEN [name |-> "addMACD"]
    ELSE IF name = RSI THEN [name |-> "addRSI"]
    ELSE [name |-> "addMovingAverage"]

\* Neither applyStrategy nor removeStrategy is running.
NoStrategy == [pc |-> "idle", at |-> 0, appliedAny |-> FALSE]

\* The promise slot of the bridge call that applyStrategy or removeStrategy
\* awaits.
StrategyTask == Task(1)

\* setStates(names, state)
setStates(current, names, state) ==
    [n \in StrategyNames |-> IF n \in names THEN state ELSE current[n]]

\* A bridge call made by ChartContent runs up to its `await ready`.
StrategyAwaits(op) ==
    /\ tpc' = [tpc EXCEPT ![StrategyTask] = "awaitReady"]
    /\ top' = [top EXCEPT ![StrategyTask] = op]
    /\ tout' = [tout EXCEPT ![StrategyTask] = Pending]
    /\ IF readyResolved
       THEN mq' = Append(mq, StrategyTask) /\ UNCHANGED readyWaiters
       ELSE readyWaiters' = Append(readyWaiters, StrategyTask) /\ UNCHANGED mq

\* What a step of ChartContent leaves alone.
StrategyFrame == <<readyResolved, cache, nextObj, callVars, nDirect, histVars, pfVars, llmVars,
                   chartVars, batchVars, pickerVars, uploadVars, lastRead, widgetRef, chartRef,
                   tableVars, widgetVars, nTasks>>

\* Add Strategy is clicked: applyStrategy sets the three badges to pending
\* and calls addMACD().
ClickAddStrategy ==
    /\ ~isStrategyApplied /\ strategy.pc = "idle"
    /\ indicatorState' = setStates(indicatorState, StrategyNames, "pending")
    /\ strategy' = [pc |-> "apply", at |-> 1, appliedAny |-> FALSE]
    /\ StrategyAwaits(StrategyCall(StrategyOrder[1]))
    /\ UNCHANGED <<isStrategyApplied, StrategyFrame>>

\* The badge after `await add...()`: applied when the call resolved, error
\* when it rejected.
StrategyBadge(out) == IF out.state = "resolved" THEN "applied" ELSE "error"

\* The bridge call applyStrategy awaits has settled: the badge is set, and
\* the next call is made or setIsStrategyApplied(appliedAny) ends the run.
ApplyStrategyResume ==
    /\ strategy.pc = "apply" /\ tpc[StrategyTask] = "done"
    /\ LET name == StrategyOrder[strategy.at]
           badge == StrategyBadge(tout[StrategyTask])
           any == strategy.appliedAny \/ badge = "applied"
       IN  /\ indicatorState' = setStates(indicatorState, {name}, badge)
           /\ IF strategy.at < Len(StrategyOrder)
              THEN /\ strategy' = [pc |-> "apply", at |-> strategy.at + 1, appliedAny |-> any]
                   /\ StrategyAwaits(StrategyCall(StrategyOrder[strategy.at + 1]))
                   /\ UNCHANGED isStrategyApplied
              ELSE /\ strategy' = NoStrategy
                   /\ isStrategyApplied' = any
                   /\ UNCHANGED <<gateVars, taskVars>>
    /\ UNCHANGED StrategyFrame

\* Remove Strategy is clicked: removeStrategy sets the badges to pending and
\* calls removeAllStudies().
ClickRemoveStrategy ==
    /\ isStrategyApplied /\ strategy.pc = "idle"
    /\ indicatorState' = setStates(indicatorState, StrategyNames, "pending")
    /\ strategy' = [pc |-> "remove", at |-> 0, appliedAny |-> FALSE]
    /\ StrategyAwaits([name |-> "removeAllStudies"])
    /\ UNCHANGED <<isStrategyApplied, StrategyFrame>>

\* removeAllStudies() has settled (it never rejects, so the fallback of
\* removeStrategy is not entered): the badges go idle.
RemoveStrategyResume ==
    /\ strategy.pc = "remove" /\ tpc[StrategyTask] = "done"
    /\ tout[StrategyTask].state = "resolved"
    /\ indicatorState' = setStates(indicatorState, StrategyNames, "idle")
    /\ isStrategyApplied' = FALSE
    /\ strategy' = NoStrategy
    /\ UNCHANGED <<gateVars, taskVars, StrategyFrame>>

(* ----------------------------- TokenPicker --------------------------- *)

\* How a fetchAllSymbols call ends: with tokens, with none, or it throws.
FetchOutcomes == {"tokens", "empty", "fails"}

\* What a step of TokenPicker leaves alone.
PickerFrame == <<gateVars, cache, nextObj, callVars, nDirect, histVars, pfVars, llmVars,
                 chartVars, batchVars, strategyVars, uploadVars, lastRead, bridgeVars>>

\* The dialog is opened: `open` changes, so the effect is due.
OpenDialog ==
    /\ ~open
    /\ open' = TRUE
    /\ effectDue' = TRUE
    /\ fetches' = 0
    /\ UNCHANGED <<tokens, isLoading, fetching, PickerFrame>>

\* The dialog is closed.
CloseDialog ==
    /\ open
    /\ open' = FALSE
    /\ effectDue' = TRUE
    /\ UNCHANGED <<tokens, isLoading, fetching, fetches, PickerFrame>>

\* The effect with dependencies [loadTokens, open] runs after a render in
\* which one of them changed: when open it calls loadTokens(), which returns
\* when isLoading or tokens.length > 0 and else sets isLoading and calls
\* fetchAllSymbols(); setIsLoading(true) gives loadTokens a new identity.
RunEffect ==
    /\ effectDue
    /\ IF open /\ ~isLoading /\ tokens = 0
       THEN /\ fetches < MaxFetches
            /\ isLoading' = TRUE
            /\ fetching' = TRUE
            /\ fetches' = fetches + 1
            /\ effectDue' = TRUE
       ELSE /\ effectDue' = FALSE
            /\ UNCHANGED <<isLoading, fetching, fetches>>
    /\ UNCHANGED <<open, tokens, PickerFrame>>

\* fetchAllSymbols() settles: setTokens on success, setError on failure, and
\* in the finally block setIsLoading(false), which gives loadTokens a new
\* identity once more.
FetchSettles ==
    /\ fetching
    /\ fetching' = FALSE
    /\ \E o \in FetchOutcomes : tokens' = IF o = "tokens" THEN 1 ELSE tokens
    /\ isLoading' = FALSE
    /\ effectDue' = TRUE
    /\ UNCHANGED <<open, fetches, PickerFrame>>

(* ---------------------------- prompt input ---------------------------- *)

\* No handleFileChange or handlePaste call.
NoUpload == [kind |-> "none", left |-> 0, got |-> 0, pos |-> "idle"]

\* What the user types.
Inputs == {<<>>, <<" ">>, <<"h","i">>}
\* How many files a selection or a paste holds.
FileCounts == {0, 1, 2}

\* What a step of the prompt input leaves alone.
UploadFrame == <<gateVars, cache, nextObj, callVars, nDirect, histVars, pfVars, llmVars,
                 chartVars, batchVars, strategyVars, pickerVars, lastRead, bridgeVars>>

\* The user types.
SetInput(v) ==
    /\ promptInput' = v
    /\ UNCHANGED <<uploadQueue, attachments, uploads, nUploads, UploadFrame>>

\* A handler has started n uploads and awaits Promise.all of them.
Uploading(kind, n) ==
    /\ nUploads < MaxUploads
    /\ nUploads' = nUploads + 1
    /\ uploads' = [uploads EXCEPT ![nUploads + 1] =
                      [kind |-> kind, left |-> n, got |-> 0,
                       pos |-> IF n = 0 THEN "resume" ELSE "await"]]

\* handleFileChange with n files: setUploadQueue(files.map(name)), then the
\* uploads start.
HandleFileChange(n) ==
    /\ uploadQueue' = [i \in 1..n |-> "file"]
    /\ Uploading("file", n)
    /\ UNCHANGED <<promptInput, attachments, UploadFrame>>

\* handlePaste with image items of which n give a file:
\* setUploadQueue(prev => [...prev, "Pasted image"]), then the uploads start.
HandlePaste(n) ==
    /\ uploadQueue' = Append(uploadQueue, "Pasted image")
    /\ Uploading("paste", n)
    /\ UNCHANGED <<promptInput, attachments, UploadFrame>>

\* One uploadFile call of handler call u settles, with an attachment or with
\* undefined; after the last, Promise.all resolves.
UploadSettles(u) ==
    /\ uploads[u].pos = "await"
    /\ \E ok \in BOOLEAN :
         uploads' = [uploads EXCEPT ![u] =
                       [@ EXCEPT !.left = @ - 1,
                                 !.got = IF ok THEN @ + 1 ELSE @,
                                 !.pos = IF uploads[u].left = 1 THEN "resume" ELSE "await"]]
    /\ UNCHANGED <<promptInput, uploadQueue, attachments, nUploads, UploadFrame>>

\* Handler call u after `await Promise.all(...)`: setAttachments, and in the
\* finally block setUploadQueue([]).
HandlerResumes(u) ==
    /\ uploads[u].pos = "resume"
    /\ attachments' = attachments + uploads[u].got
    /\ uploadQueue' = <<>>
    /\ uploads' = [uploads EXCEPT ![u].pos = "done"]
    /\ UNCHANGED <<promptInput, nUploads, UploadFrame>>

\* PromptInputSubmit: disabled={!input.trim() || uploadQueue.length > 0}
SendDisabled == trim(promptInput) = <<>> \/ Len(uploadQueue) > 0

(* --------------------------- specification ---------------------------- *)

vars == <<readyResolved, readyWaiters, mq, cache, nextObj,
          pc, cur, res, nDirect, queriesSince, okSettled, errSettled,
          seenOk, seenErr, accessor, pfStatus, pfNames,
          pfCallback, pfConcurrency, pfWorkers, idx, done, success, failed, progress, fetched,
          llmStatus, llmNames, llmPos, llmResults, llmSettled,
          lastRead, widgetRef, chartRef, appliedIndicators, appliedPatterns,
          appliedAnnotations, appliedPriceTargets, tpc, top, tout, nTasks,
          nextHandle, entities, studyIds, widgetCalls,
          scriptPromise, windowTradingView, scriptElements, runs, chartWidget, nRuns,
          batchTask, batchChildren, batchResults,
          indicatorState, isStrategyApplied, strategy,
          open, tokens, isLoading, effectDue, fetching, fetches,
          promptInput, uploadQueue, attachments, uploads, nUploads>>

Init ==
    /\ readyResolved = FALSE
    /\ readyWaiters = <<>>
    /\ mq = <<>>
    /\ cache = <<>>
    /\ nextObj = 1
    /\ pc = [p \in Procs |-> "idle"]
    /\ cur = [p \in Procs |-> <<>>]
    /\ res = [p \in Procs |-> NoResult]
    /\ nDirect = 0
    /\ queriesSince = [k \in Keys |-> 0]
    /\ okSettled = [k \in Keys |-> {}]
    /\ errSettled = [k \in Keys |-> {}]
    /\ seenOk = [p \in Procs |-> {}]
    /\ seenErr = [p \in Procs |-> {}]
    /\ accessor = [p \in Procs |-> "none"]
    /\ pfStatus = "idle"
    /\ pfNames = <<>>
    /\ pfCallback = "none"
    /\ pfConcurrency = Omitted
    /\ pfWorkers = 0
    /\ idx = 0
    /\ done = 0
    /\ success = <<>>
    /\ failed = <<>>
    /\ progress = <<>>
    /\ fetched = <<>>
    /\ llmStatus = "idle"
    /\ llmNames = <<>>
    /\ llmPos = 0
    /\ llmResults = <<>>
    /\ llmSettled = <<>>
    /\ lastRead = [op |-> "none"]
    /\ widgetRef = NoWidget
    /\ chartRef = NoWidget
    /\ appliedIndicators = <<>>
    /\ appliedPatterns = <<>>
    /\ appliedAnnotations = <<>>
    /\ appliedPriceTargets = <<>>
    /\ tpc = [t \in Tasks |-> "idle"]
    /\ top = [t \in Tasks |-> [name |-> "none"]]
    /\ tout = [t \in Tasks |-> Pending]
    /\ nTasks = 0
    /\ nextHandle = 1
    /\ entities = {}
    /\ studyIds = {}
    /\ widgetCalls = <<>>
    /\ scriptPromise = "null"
    /\ windowTradingView = FALSE
    /\ scriptElements = 0
    /\ runs = [i \in 1..MaxRuns |-> NoRun]
    /\ chartWidget = [c \in Charts |-> NoWidget]
    /\ nRuns = 0
    /\ batchTask = NoTask
    /\ batchChildren = <<>>
    /\ batchResults = <<>>
    /\ indicatorState = [n \in StrategyNames |-> "idle"]
    /\ isStrategyApplied = FALSE
    /\ strategy = NoStrategy
    /\ open = FALSE
    /\ tokens = 0
    /\ isLoading = FALSE
    /\ effectDue = FALSE
    /\ fetching = FALSE
    /\ fetches = 0
    /\ promptInput = <<>>
    /\ uploadQueue = <<>>
    /\ attachments = 0
    /\ uploads = [u \in 1..MaxUploads |-> NoUpload]
    /\ nUploads = 0

\* Top-level getStudySchema calls, overlapping, with cache clears between.
NextCalls ==
    \/ \E n \in CallNames : GetStudySchema(n)
    \/ \E p \in DirectCalls : Fetch(p)
    \/ \E a \in ClearArgs : ClearStudyCache(a)
    \/ RegisterWidget(Widget(1))

SpecCalls == Init /\ [][NextCalls]_vars

\* One prefetchStudySchemas run.
NextPrefetch ==
    \/ \E names \in NameLists, c \in ConcurrencyArgs, cb \in Callbacks :
          PrefetchStudySchemas(names, c, cb)
    \/ \E p \in Workers : Fetch(p)
    \/ \E p \in Workers : WorkerResume(p)
    \/ RegisterWidget(Widget(1))

SpecPrefetch == Init /\ [][NextPrefetch]_vars

\* Top-level getStudySchema calls and cache clears, with reads of the cache.
NextReads ==
    \/ \E n \in {RSI, EmptyName} : GetStudySchema(n)
    \/ \E p \in DirectCalls : Fetch(p)
    \/ \E a \in ClearArgs : ClearStudyCache(a)
    \/ RegisterWidget(Widget(1))
    \/ ReadCache

SpecReads == Init /\ [][NextReads]_vars

\* The bridge: widgets come and go, operations are started and run.
NextBridge ==
    \/ \E w \in Widgets : RegisterWidget(w)
    \/ UnregisterWidget
    \/ \E op \in Operations : Invoke(op)
    \/ \E t \in Tasks : Body(t)

SpecBridge == Init /\ [][NextBridge]_vars


\* The gate: bridge operations and schema fetches started before and after
\* the widget registers, unregisters and registers again.
DefaultInterval == <<"1","D">>
GateOperations ==
    {[name |-> "addRSI"], [name |-> "resetChart"],
     [name |-> "setSymbol", interval |-> DefaultInterval]}

\* Bridge operations and schema calls together number at most MaxTasks.
GateBudget == nTasks + nDirect < MaxTasks

NextGate ==
    \/ RegisterWidget(Widget(1))
    \/ UnregisterWidget
    \/ \E op \in GateOperations : GateBudget /\ Invoke(op)
    \/ \E t \in Tasks : Body(t)
    \/ \E t \in Tasks : SetSymbolStart(t)
    \/ \E t \in Tasks : WidgetSettles(t)
    \/ \E t \in Tasks : SetResolutionStep(t)
    \/ GateBudget /\ GetStudySchema(RSI)
    \/ \E p \in DirectCalls : Fetch(p)

SpecGate == Init /\ [][NextGate]_vars

\* The gate with the event loop at work: a queued microtask is run, and the
\* widget settles the promises it handed out.
RunMicrotask ==
    \E t \in Tasks : Body(t) \/ SetSymbolStart(t) \/ SetResolutionStep(t)

WaitingOperations ==
    {[name |-> "addRSI"], [name |-> "setSymbol", interval |-> DefaultInterval]}

NextWaiting ==
    \/ RegisterWidget(Widget(1))
    \/ UnregisterWidget
    \/ \E op \in WaitingOperations : Invoke(op)
    \/ \E t \in Tasks : Body(t)
    \/ \E t \in Tasks : SetSymbolStart(t)
    \/ \E t \in Tasks : WidgetSettles(t)
    \/ \E t \in Tasks : SetResolutionStep(t)

SpecWaiting ==
    /\ Init /\ [][NextWaiting]_vars
    /\ WF_vars(RunMicrotask)
    /\ \A t \in Tasks : WF_vars(WidgetSettles(t))

\* Entities are created and the tables are cleared.
ClearOperations ==
    {[name |-> "addRSI"], [name |-> "drawTrendLine"],
     [name |-> "clearAllIndicators"], [name |-> "clearAllPatterns"],
     [name |-> "clearAllPriceTargets"]}
    \cup {[name |-> "drawPriceTarget", target |-> g] : g \in Targets}

NextClear ==
    \/ RegisterWidget(Widget(1))
    \/ UnregisterWidget
    \/ \E op \in ClearOperations : Invoke(op)
    \/ \E t \in Tasks : Body(t)
    \/ \E t \in Tasks : DrawPriceTargetStart(t)
    \/ \E t \in Tasks : PriceTargetLabelStep(t)

SpecClear == Init /\ [][NextClear]_vars

\* Entities are created and removed one at a time.
RemoveOperations ==
    {[name |-> "addRSI"], [name |-> "drawTrendLine"]}
    \cup {[name |-> "drawPriceTarget", target |-> g] : g \in Targets}
    \cup {[name |-> "removeIndicator", key |-> RSI]}
    \cup {[name |-> "removePattern", key |-> TrendLineId(ms)] : ms \in Times}
    \cup {[name |-> "removePriceTarget", key |-> PriceTargetId(g)] : g \in Targets}

NextRemove ==
    \/ RegisterWidget(Widget(1))
    \/ UnregisterWidget
    \/ \E op \in RemoveOperations : Invoke(op)
    \/ \E t \in Tasks : Body(t)
    \/ \E t \in Tasks : DrawPriceTargetStart(t)
    \/ \E t \in Tasks : PriceTargetLabelStep(t)

SpecRemove == Init /\ [][NextRemove]_vars

\* Draw operations are started while fewer than MaxTasks - 1 have been.
DrawBudget == nTasks + 1 < MaxTasks

\* The four draw operations.
DrawOperations ==
    {[name |-> "drawTrendLine"]}
    \cup {[name |-> "drawSupportResistanceLevel", level |-> l] : l \in Levels}
    \cup {[name |-> "drawPattern", pattern |-> p] : p \in Patterns}
    \cup {[name |-> "drawPriceTarget", target |-> g] : g \in Targets}

NextDraw ==
    \/ RegisterWidget(Widget(1))
    \/ UnregisterWidget
    \/ \E op \in DrawOperations : DrawBudget /\ Invoke(op)
    \/ \E t \in Tasks : Body(t)
    \/ \E t \in Tasks : DrawPriceTargetStart(t)
    \/ \E t \in Tasks : PriceTargetLabelStep(t)
    \/ \E t \in Tasks : DrawPatternStart(t)
    \/ \E t \in Tasks : DrawPatternLine(t)
    \/ \E t \in Tasks : DrawPatternAnnotation(t)

SpecDraw == Init /\ [][NextDraw]_vars

\* Operations other than the draw operations.
SoftOperations ==
    {[name |-> "addRSI"], [name |-> "addMACD"], [name |-> "resetChart"],
     [name |-> "removeAllStudies"], [name |-> "setSymbol", interval |-> DefaultInterval]}
    \cup {[name |-> "applyIndicator", config |-> [name |-> n, parameters |-> <<>>]] :
             n \in ConfigNames}

NextSoft ==
    \/ RegisterWidget(Widget(1))
    \/ UnregisterWidget
    \/ \E op \in SoftOperations : Invoke(op)
    \/ \E t \in Tasks : Body(t)
    \/ \E t \in Tasks : SetSymbolStart(t)
    \/ \E t \in Tasks : WidgetSettles(t)
    \/ \E t \in Tasks : SetResolutionStep(t)

SpecSoft == Init /\ [][NextSoft]_vars

\* One getSchemasForLLM call, with cache clears while it runs.
NextLLM ==
    \/ \E names \in NameLists : GetSchemasForLLM(names)
    \/ Fetch(LlmCaller)
    \/ LlmResume
    \/ ClearStudyCache(RSI)
    \/ RegisterWidget(Widget(1))

SpecLLM == Init /\ [][NextLLM]_vars

\* TradingViewChart components are mounted, re-rendered with other props
\* and unmounted while the library script loads or fails to.
NextChart ==
    \/ \E c \in Charts : Mount(c)
    \/ \E c \in Charts : Unmount(c)
    \/ \E c \in Charts : PropsChange(c)
    \/ ScriptLoads
    \/ ScriptFails
    \/ \E i \in 1..MaxRuns : ScriptThen(i)
    \/ \E i \in 1..MaxRuns : ChartReady(i)

SpecChart == Init /\ [][NextChart]_vars

\* applyIndicator calls with the parameters callers supply.
ApplyBudget == nTasks + 1 < MaxTasks

NextApply ==
    \/ RegisterWidget(Widget(1))
    \/ UnregisterWidget
    \/ \E c \in Configs : ApplyBudget /\ Invoke([name |-> "applyIndicator", config |-> c])
    \/ \E t \in Tasks : Body(t)

SpecApply == Init /\ [][NextApply]_vars

\* Operations invoked before the widget registers, and what they do once it
\* has.
OrderOperations ==
    {[name |-> "addMACD"], [name |-> "addRSI"],
     [name |-> "setSymbol", interval |-> DefaultInterval],
     [name |-> "drawPattern", pattern |-> [type |-> TREND_LINE, n |-> 1]]}

NextOrder ==
    \/ RegisterWidget(Widget(1))
    \/ \E op \in OrderOperations : ~readyResolved /\ Invoke(op)
    \/ \E t \in Tasks : Body(t)
    \/ \E t \in Tasks : SetSymbolStart(t)
    \/ \E t \in Tasks : WidgetSettles(t)
    \/ \E t \in Tasks : SetResolutionStep(t)
    \/ \E t \in Tasks : DrawPatternStart(t)
    \/ \E t \in Tasks : DrawPatternAnnotation(t)

SpecOrder == Init /\ [][NextOrder]_vars

\* The patterns drawPattern is called with, by type and number of coordinates.
CountedPatterns ==
    {[type |-> TRIANGLE_ASCENDING, n |-> n] : n \in {0, 1, 3, 4}}
    \cup {[type |-> CHANNEL_DOWN, n |-> 3], [type |-> HEAD_AND_SHOULDERS, n |-> 4],
          [type |-> HEAD_AND_SHOULDERS, n |-> 5], [type |-> DOUBLE_TOP, n |-> 2],
          [type |-> DOUBLE_BOTTOM, n |-> 3]}

PatternBudget == nTasks + 2 < MaxTasks

\* drawPattern calls with patterns of every type.
NextPattern ==
    \/ RegisterWidget(Widget(1))
    \/ UnregisterWidget
    \/ \E p \in CountedPatterns :
          PatternBudget /\ Invoke([name |-> "drawPattern", pattern |-> p])
    \/ \E t \in Tasks : DrawPatternStart(t)
    \/ \E t \in Tasks : DrawPatternLine(t)
    \/ \E t \in Tasks : DrawPatternAnnotation(t)

SpecPattern == Init /\ [][NextPattern]_vars

\* One call with a list of items, while a widget comes and goes.
NextBatch ==
    \/ RegisterWidget(Widget(1))
    \/ UnregisterWidget
    \/ \E op \in BatchOperations : InvokeBatch(op)
    \/ \E t \in Tasks : BatchLoop(t)
    \/ \E t \in Tasks : BatchResume(t)
    \/ \E t \in Tasks : Body(t)
    \/ \E t \in Tasks : DrawPriceTargetStart(t)
    \/ \E t \in Tasks : PriceTargetLabelStep(t)
    \/ \E t \in Tasks : DrawPatternStart(t)
    \/ \E t \in Tasks : DrawPatternLine(t)
    \/ \E t \in Tasks : DrawPatternAnnotation(t)

SpecBatch == Init /\ [][NextBatch]_vars

\* The strategy buttons of ChartContent, while the chart's widget registers
\* and, on a symbol change or unmount, unregisters.
StrategyBudget == Len(widgetCalls) < MaxCalls

NextStrategy ==
    \/ RegisterWidget(Widget(1))
    \/ UnregisterWidget
    \/ StrategyBudget /\ ClickAddStrategy
    \/ ApplyStrategyResume
    \/ StrategyBudget /\ ClickRemoveStrategy
    \/ RemoveStrategyResume
    \/ Body(StrategyTask)

SpecStrategy == Init /\ [][NextStrategy]_vars

\* The pair finder is opened and closed while its fetches settle and the
\* user types in the prompt input beside it.
NextPicker ==
    \/ OpenDialog
    \/ CloseDialog
    \/ RunEffect
    \/ FetchSettles
    \/ \E v \in Inputs : SetInput(v)

SpecPicker == Init /\ [][NextPicker]_vars

\* Files are selected and images pasted while text is typed.
NextUpload ==
    \/ \E v \in Inputs : SetInput(v)
    \/ \E n \in FileCounts : HandleFileChange(n)
    \/ \E n \in FileCounts : HandlePaste(n)
    \/ \E u \in 1..MaxUploads : UploadSettles(u)
    \/ \E u \in 1..MaxUploads : HandlerResumes(u)

SpecUpload == Init /\ [][NextUpload]_vars

(* ------------------------------ properties ---------------------------- *)

\* Has the caller's getStudySchema promise settled.
Settled(p) == res[p] # NoResult

\* C1: once a getStudySchema(S) call has resolved and the cache was not
\* cleared since, a getStudySchema(S) call begun later resolves with that very
\* schema object and does not call the accessor.
C1_SameObjectOnSecondCall ==
    \A p \in Procs :
        (Settled(p) /\ seenOk[p] # {}) =>
            /\ res[p].ok
            /\ seenOk[p] = {res[p].schema.obj}
            /\ accessor[p] = "none"

\* C2: once a getStudySchema(S) call has rejected and the entry was not
\* cleared since, a getStudySchema(S) call begun later rejects with that very
\* message and does not call the accessor.
C2_SameErrorOnLaterCall ==
    \A p \in Procs :
        (Settled(p) /\ seenErr[p] # {}) =>
            /\ ~res[p].ok
            /\ seenErr[p] = {res[p].error}
            /\ accessor[p] = "none"

\* `return { total, success, failed }`
Summary == [total |-> Len(pfNames), success |-> success, failed |-> failed]

\* C3: the summary a prefetchStudySchemas run resolves with has total = N
\* and |success| + |failed| = N.
C3_SummaryCountsAll ==
    pfStatus = "resolved" =>
        /\ Summary.total = Len(pfNames)
        /\ Len(Summary.success) + Len(Summary.failed) = Len(pfNames)
        /\ done = Len(pfNames)

C3_Witness ==
    /\ pfStatus = "resolved"
    /\ Len(pfNames) = 3 /\ pfWorkers = 2
    /\ Len(success) = 1 /\ Len(failed) = 2
    /\ \E i \in DOMAIN fetched : fetched[i].accessor = "none"
    /\ \E i \in DOMAIN fetched : fetched[i].accessor = "threw"

\* C4: the promise of prefetchStudySchemas never rejects.
C4_PrefetchNeverRejects == pfStatus # "rejected"

OneEntryPerKey(c) == \A i, j \in 1..Len(c) : c[i].key = c[j].key => i = j

C5_NoReplaceStep ==
    \A k \in Keys :
        /\ (MapHas(cache, k) /\ MapHas(cache', k)) =>
                MapGet(cache', k, NoEntry) = MapGet(cache, k, NoEntry)
        /\ queriesSince'[k] <= 1

\* C5: the cache holds at most one entry per key; an entry, once written, is
\* not replaced unless clearStudyCache removed it in between; the accessor is
\* called at most once per key between clears.
C5_EntryWrittenOnce == [](OneEntryPerKey(cache)) /\ [][C5_NoReplaceStep]_vars

\* C6: names with the same key share one entry: a later call under any of
\* them settles as the earlier one did, without an accessor call, and
\* hasStudy, peekStudySchema and clearStudyCache act alike for them.
C6_SameKeySameEntry ==
    /\ \A p \in Procs :
          (Settled(p) /\ seenOk[p] \cup seenErr[p] # {}) =>
              /\ accessor[p] = "none"
              /\ seenOk[p] = OkOf(res[p])
              /\ seenErr[p] = ErrOf(res[p])
    /\ \A a, b \in StudyNames :
          keyOf(a) = keyOf(b) =>
              /\ hasStudy(cache, a) = hasStudy(cache, b)
              /\ peekStudySchema(cache, a) = peekStudySchema(cache, b)
              /\ clearStudyCache(cache, a) = clearStudyCache(cache, b)

\* C7: clearStudyCache(S), for any name S given, the empty string included,
\* removes the entry of keyOf(S) and nothing else; only the call without an
\* argument empties the cache.
C7_ClearRemovesOnlyItsKey ==
    /\ \A S \in StudyNames : clearStudyCache(cache, S) = MapDelete(cache, keyOf(S))
    /\ clearStudyCache(cache, Missing) = <<>>

\* C8: a search with a blank query reports every input of every successfully
\* cached study; for any query every hit is an input of a success entry and
\* no input is reported twice.
C8_SearchHits ==
    \A query \in Queries :
        LET hits == searchCachedInputs(cache, query)
            okAt == {i \in 1..Len(cache) : cache[i].value.ok}
        IN  /\ \A h \in DOMAIN hits :
                  \E i \in okAt :
                      LET sc == cache[i].value.schema
                      IN  /\ hits[h].study = sc.name
                          /\ hits[h].ref[1] = sc.obj
                          /\ hits[h].ref[2] \in DOMAIN sc.inputs
                          /\ hits[h].input = sc.inputs[hits[h].ref[2]]
            /\ \A h1, h2 \in DOMAIN hits : hits[h1].ref = hits[h2].ref => h1 = h2
            /\ trim(query) = <<>> =>
                  \A i \in okAt :
                      \A j \in DOMAIN cache[i].value.schema.inputs :
                          \E h \in DOMAIN hits : hits[h].ref = <<cache[i].value.schema.obj, j>>

C8_Witness ==
    /\ lastRead.op = "searchCachedInputs"
    /\ lastRead.arg = <<" ">>
    /\ lastRead.out = searchCachedInputs(cache, lastRead.arg)
    /\ Len(lastRead.out) = 2
    /\ \E i \in 1..Len(cache) : ~cache[i].value.ok

\* One step of a removeIndicator body whose key is not in the table.
C9_AbsentKeyStep ==
    \A t \in Tasks :
        (/\ tpc[t] = "awaitReady" /\ tpc'[t] = "done"
         /\ top[t].name = "removeIndicator"
         /\ ~MapHas(appliedIndicators, top[t].key))
        => /\ UNCHANGED <<appliedIndicators, appliedPatterns, appliedAnnotations,
                          appliedPriceTargets>>
           /\ UNCHANGED <<widgetCalls, entities>>
           /\ tout'[t].state = "resolved"

\* C9: removeIndicator(k) that finds no entry for k changes none of the four
\* tables, makes no widget call and resolves.
C9_RemoveAbsentIsNoOp == [][C9_AbsentKeyStep]_vars

C9_Witness ==
    \E t \in Tasks :
        /\ tpc[t] = "done" /\ top[t].name = "removeIndicator" /\ top[t].key = MACD
        /\ tout[t].state = "resolved"
        /\ chartRef # NoWidget
        /\ MapHas(appliedIndicators, RSI)
        /\ appliedPatterns # <<>>

NamesOf(log, kind) ==
    LET sel == SelectSeq(log, LAMBDA f : f.accessor = kind)
    IN  [i \in DOMAIN sel |-> sel[i].name]

AllAsked == \A i \in DOMAIN fetched : fetched[i].accessor # "none"

C10_Summary ==
    (pfStatus = "resolved" /\ AllAsked) =>
        /\ success = NamesOf(fetched, "returned")
        /\ [i \in DOMAIN failed |-> failed[i].name] = NamesOf(fetched, "threw")
        /\ \A i \in DOMAIN failed : includes(failed[i].error, failed[i].name)
        /\ (/\ pfNames = <<RSI, MACD, BADSTUDY>> /\ pfWorkers = 2
            /\ NamesOf(fetched, "threw") = <<BADSTUDY>>)
              => success = <<RSI, MACD>>

C10_FailureCached ==
    \A p \in Workers :
        (pc[p] = "fetch" /\ pc'[p] = "resume" /\ accessor'[p] = "threw") =>
            /\ ~res'[p].ok
            /\ MapGet(cache', keyOf(cur[p]), NoEntry) = [ok |-> FALSE, error |-> res'[p].error]
            /\ includes(res'[p].error, cur[p])

\* C10: in a run whose items all reached the accessor, success lists the
\* names whose accessor call returned and failed those whose call threw, in
\* completion order, each with a message that holds the name; the failure is
\* cached as it is thrown; [RSI, MACD, BADSTUDY] with two workers, BADSTUDY
\* throwing, gives success [RSI, MACD] and failed [BADSTUDY].
C10_PrefetchSortsByOutcome == [](C10_Summary) /\ [][C10_FailureCached]_vars

C10_Witness ==
    /\ pfStatus = "resolved" /\ AllAsked
    /\ pfNames = <<RSI, MACD, BADSTUDY>> /\ pfWorkers = 2
    /\ success = <<RSI, MACD>>
    /\ Len(failed) = 1 /\ failed[1].name = BADSTUDY

\* One step as the gate allows it: it never closes, and it opens in a step
\* that registers a widget.
C11_LatchStep ==
    /\ readyResolved => readyResolved'
    /\ (~readyResolved /\ readyResolved') => widgetRef' \in Widgets
    /\ (widgetRef' \in Widgets /\ widgetRef = NoWidget) => readyResolved'

\* C11: the gate is unresolved until the first registerWidget and resolved
\* from then on, whatever is registered, unregistered or run afterwards.
C11_GateIsLatch ==
    /\ [](~readyResolved => (widgetRef = NoWidget /\ chartRef = NoWidget))
    /\ [][C11_LatchStep]_vars

C11_Witness ==
    /\ readyResolved
    /\ widgetRef = NoWidget
    /\ \E t \in Tasks : top[t].name = "resetChart" /\ tpc[t] = "done"
    /\ \E t \in Tasks : top[t].name = "addRSI" /\ tpc[t] = "awaitReady"

\* C12: while the gate is unresolved no call has been made on any widget:
\* none by a bridge operation and no getStudyInputs by a schema fetch.
C12_NoWidgetCallBeforeGate ==
    ~readyResolved =>
        /\ widgetCalls = <<>>
        /\ entities = {}
        /\ \A k \in Keys : queriesSince[k] = 0
        /\ \A p \in Procs : accessor[p] = "none"
        /\ cache = <<>>

C12_Witness ==
    /\ ~readyResolved
    /\ \E p \in DirectCalls : pc[p] = "fetch"
    /\ \E t \in Tasks : tpc[t] = "awaitReady" /\ top[t].name = "setSymbol"
    /\ \E t \in Tasks : tpc[t] = "awaitReady" /\ top[t].name = "addRSI"
    /\ Len(readyWaiters) = 3

\* C13: an operation invoked while the gate is unresolved stays where it is
\* as long as the gate is unresolved, and an operation that waits with the gate
\* resolved is eventually done.
C13_WaitsThenCompletes ==
    /\ [](~readyResolved => \A t \in Tasks : tpc[t] \in {"idle", "awaitReady"})
    /\ \A t \in Tasks : (tpc[t] = "awaitReady" /\ readyResolved) ~> (tpc[t] = "done")

C13_Witness ==
    /\ readyResolved
    /\ \A t \in Tasks : tpc[t] = "done"
    /\ \E t \in Tasks : top[t].name = "setSymbol" /\ tout[t].state = "resolved"
    /\ Len(widgetCalls) >= 3

\* The handles the four tables hold.
TableHandles ==
    {appliedIndicators[i].value : i \in 1..Len(appliedIndicators)}
    \cup {appliedPatterns[i].value : i \in 1..Len(appliedPatterns)}
    \cup {appliedAnnotations[i].value : i \in 1..Len(appliedAnnotations)}
    \cup {appliedPriceTargets[i].value : i \in 1..Len(appliedPriceTargets)}

\* C14: every entry of the four tables holds a handle that a creation call
\* returned on the chart of the widget registered now.
C14_EntriesBelongToRegisteredWidget ==
    \A h \in TableHandles :
        /\ h # NoHandle
        /\ chartRef # NoWidget
        /\ h.chart = chartRef
        /\ h.id < nextHandle

AllTablesEmpty(i, p, a, pt) == i = <<>> /\ p = <<>> /\ a = <<>> /\ pt = <<>>

\* One step that ends an unregisterWidget or a resetChart call.
C15_ClearingStep ==
    /\ (widgetRef # NoWidget /\ widgetRef' = NoWidget) =>
          AllTablesEmpty(appliedIndicators', appliedPatterns', appliedAnnotations',
                         appliedPriceTargets')
    /\ \A t \in Tasks :
          (top[t].name = "resetChart" /\ tpc[t] = "awaitReady" /\ tpc'[t] = "done") =>
              AllTablesEmpty(appliedIndicators', appliedPatterns', appliedAnnotations',
                             appliedPriceTargets')

\* C15: right after unregisterWidget returns, and right after a resetChart
\* call completes, the four tables are empty.
C15_TablesEmptyAfterClearing == [][C15_ClearingStep]_vars

\* The table a clearAll operation works on.
TableOf(name, i, p, pt) ==
    IF name = "clearAllIndicators" THEN i
    ELSE IF name = "clearAllPatterns" THEN p ELSE pt

\* One step that runs a clearAll operation with a chart registered.
C16_ClearAllStep ==
    \A t \in Tasks :
        (/\ top[t].name \in {"clearAllIndicators", "clearAllPatterns", "clearAllPriceTargets"}
         /\ tpc[t] = "awaitReady" /\ tpc'[t] = "done"
         /\ chartRef # NoWidget)
        => LET table == TableOf(top[t].name, appliedIndicators, appliedPatterns,
                                appliedPriceTargets)
               calls == SubSeq(widgetCalls', Len(widgetCalls) + 1, Len(widgetCalls'))
           IN  /\ SubSeq(widgetCalls', 1, Len(widgetCalls)) = widgetCalls
               /\ Len(calls) = Len(table)
               /\ \A c \in DOMAIN calls :
                     calls[c].method = "removeEntity" /\ calls[c].chart = chartRef
               /\ \A e \in DOMAIN table :
                     Cardinality({c \in DOMAIN calls : calls[c].entity = table[e].value}) = 1
               /\ tout'[t].state = "resolved"
               /\ TableOf(top[t].name, appliedIndicators', appliedPatterns',
                          appliedPriceTargets') = <<>>

\* C16: a clearAll operation with a widget registered calls removeEntity once
\* for every entry of its table, also when calls throw, resolves and leaves
\* its table empty.
C16_ClearAllRemovesEveryEntry == [][C16_ClearAllStep]_vars

C16_Witness ==
    \E t \in Tasks :
        /\ top[t].name = "clearAllPatterns" /\ tpc[t] = "done"
        /\ tout[t].state = "resolved"
        /\ appliedPatterns = <<>>
        /\ Len(SelectSeq(widgetCalls, LAMBDA c : c.method = "removeEntity")) = 2
        /\ Cardinality(entities) = 1

\* The table a targeted removal works on.
RemovalTable(name, i, p, pt) ==
    IF name = "removeIndicator" THEN i
    ELSE IF name = "removePattern" THEN p ELSE pt

\* One step that runs a targeted removal whose key is in the table.
C17_RemovalStep ==
    \A t \in Tasks :
        (/\ top[t].name \in {"removeIndicator", "removePattern", "removePriceTarget"}
         /\ tpc[t] = "awaitReady" /\ tpc'[t] = "done"
         /\ MapHas(RemovalTable(top[t].name, appliedIndicators, appliedPatterns,
                                appliedPriceTargets), top[t].key))
        => ~MapHas(RemovalTable(top[t].name, appliedIndicators', appliedPatterns',
                                appliedPriceTargets'), top[t].key)

\* C17: removeIndicator, removePattern and removePriceTarget on a key that is
\* in the table leave the key out of the table, also when removeEntity throws.
C17_RemovalDeletesEntry == [][C17_RemovalStep]_vars

DrawNames == {"drawTrendLine", "drawSupportResistanceLevel", "drawPattern", "drawPriceTarget"}

\* One step in which a draw operation passes `await ready` and finds the gate
\* resolved and no chart.
C18_DrawWithoutChartStep ==
    \A t \in Tasks :
        (/\ top[t].name \in DrawNames
         /\ tpc[t] = "awaitReady" /\ tpc'[t] # "awaitReady"
         /\ readyResolved /\ chartRef = NoWidget)
        => /\ tpc'[t] = "done"
           /\ tout'[t] = Rejected(ChartNotAvailable)
           /\ widgetCalls' = widgetCalls
           /\ entities' = entities
           /\ tableVars' = tableVars

\* C18: a draw operation that runs with the gate resolved and no widget
\* registered rejects with "Chart not available", calls no widget method and
\* leaves the four tables as they were.
C18_DrawWithoutChartRejects == [][C18_DrawWithoutChartStep]_vars

C18_Witness ==
    /\ readyResolved /\ chartRef = NoWidget
    /\ \E t, u \in Tasks :
          /\ top[t].name = "drawTrendLine" /\ tout[t].state = "resolved"
          /\ tout[t].value # NoHandle
          /\ top[u].name = "drawTrendLine" /\ tout[u] = Rejected(ChartNotAvailable)
    /\ Len(widgetCalls) = 1

SoftNames ==
    {"setSymbol", "addMACD", "addRSI", "applyIndicator", "removeAllStudies", "resetChart"}

KeysOf(table) == {table[i].key : i \in DOMAIN table}

\* One step that ends an operation other than a draw operation.
C19_SoftStep ==
    \A t \in Tasks :
        (top[t].name \in SoftNames /\ tpc[t] # "done" /\ tpc'[t] = "done")
        => /\ tout'[t].state = "resolved"
           /\ tout'[t].value = NoHandle =>
                 /\ KeysOf(appliedIndicators') \subseteq KeysOf(appliedIndicators)
                 /\ KeysOf(appliedPatterns') \subseteq KeysOf(appliedPatterns)
                 /\ KeysOf(appliedAnnotations') \subseteq KeysOf(appliedAnnotations)
                 /\ KeysOf(appliedPriceTargets') \subseteq KeysOf(appliedPriceTargets)

\* C19: setSymbol, addMACD, addRSI, applyIndicator, removeAllStudies and
\* resetChart never reject: without a widget, or when the widget method raises, they resolve
\* with null or undefined and add no table entry.
C19_FailuresAreSoft == [][C19_SoftStep]_vars

\* Has the prefetch run ended: every worker returned or was left by an exception.
RunEnded ==
    /\ pfStatus \in {"resolved", "rejected"}
    /\ \A i \in 1..pfWorkers : pc[Worker(i)] \in {"done", "crashed"}

\* How often name occurs in the list l of names.
Occurrences(l, name) == Cardinality({i \in DOMAIN l : l[i] = name})

\* C20: the k-th onProgress invocation carries (k, N, name of the k-th item
\* completed), and a run over N names that has ended has made N invocations,
\* one for each input position.
C20_ProgressOncePerItem ==
    /\ \A k \in DOMAIN progress :
          /\ progress[k][1] = k
          /\ progress[k][2] = Len(pfNames)
          /\ progress[k][3] = fetched[k].name
    /\ (pfCallback = "given" /\ RunEnded) =>
          /\ Len(progress) = Len(pfNames)
          /\ \A n \in PrefetchNames :
                Occurrences([k \in DOMAIN progress |-> progress[k][3]], n)
                    = Occurrences(pfNames, n)

\* The getStudySchema fetches of the run that are in flight.
InFlight == {w \in Workers : pc[w] = "fetch"}

\* C21: a prefetchStudySchemas run never has more than min(max(1, c), N)
\* fetches in flight, c being the requested concurrency (8 when omitted) and
\* N the number of names.
C21_InFlightBounded ==
    pfStatus # "idle" =>
        LET c == IF pfConcurrency.given THEN pfConcurrency.value ELSE 8
            floored == IF c < 1 THEN 1 ELSE c
            bound == IF floored <= Len(pfNames) THEN floored ELSE Len(pfNames)
        IN  Cardinality(InFlight) <= bound

C21_Witness ==
    /\ pfStatus = "running"
    /\ pfConcurrency.given /\ pfConcurrency.value = 2
    /\ Len(pfNames) = 3
    /\ Cardinality(InFlight) = 2
    /\ idx = 2

\* The entries of l that are successes, in order.
Successes(l) == SelectSeq(l, LAMBDA e : e.ok)

\* C22: getSchemasForLLM fetches its names one at a time in input order and
\* resolves with one projection for each position whose fetch succeeded, in
\* input order, and nothing for the others.
C22_PayloadHoldsSuccessesInOrder ==
    /\ llmStatus = "running" =>
          /\ Len(llmSettled) = llmPos - 1
          /\ cur[LlmCaller] = llmNames[llmPos]
          /\ pc[LlmCaller] \in {"fetch", "resume"}
    /\ llmStatus = "resolved" => Len(llmSettled) = Len(llmNames)
    /\ \A i \in DOMAIN llmSettled :
          llmSettled[i].ok => keyOf(llmSettled[i].schema.name) = keyOf(llmNames[i])
    /\ llmResults = [i \in DOMAIN Successes(llmSettled) |->
                        Projection(Successes(llmSettled)[i].schema)]

C22_Witness ==
    /\ llmStatus = "resolved"
    /\ Len(llmNames) = 3
    /\ Len(llmResults) = 2
    /\ ~llmSettled[2].ok

\* Is the entry for the normalized name a success entry.
SuccessEntry(c, studyName) ==
    \E i \in DOMAIN c : c[i].key = keyOf(studyName) /\ c[i].value.ok

\* hasStudy agrees with peekStudySchema and with the entry.
C23_ReadsAgree ==
    \A n \in ReadNames \cup StudyNames :
        /\ hasStudy(cache, n) <=> (peekStudySchema(cache, n) # NoEntry)
        /\ hasStudy(cache, n) <=> SuccessEntry(cache, n)

\* One step in which the application reads the cache.
C23_ReadStep ==
    lastRead' # lastRead =>
        /\ cache' = cache
        /\ widgetCalls' = widgetCalls
        /\ queriesSince' = queriesSince
        /\ UNCHANGED <<readyResolved, readyWaiters, mq>>
        /\ lastRead'.op = "hasStudy" =>
              lastRead'.out = <<SuccessEntry(cache, lastRead'.arg)>>
        /\ lastRead'.op = "peekStudySchema" =>
              (lastRead'.out # <<NoEntry>>) = SuccessEntry(cache, lastRead'.arg)

\* C23: hasStudy, peekStudySchema and searchCachedInputs return at once and
\* leave the cache, the widget and the gate alone; hasStudy(S) is true exactly
\* when peekStudySchema(S) is defined, exactly when the entry of the
\* normalized S is a success entry.
C23_ReadsArePure == []C23_ReadsAgree /\ [][C23_ReadStep]_vars

C23_Witness ==
    /\ lastRead.op = "hasStudy" /\ lastRead.arg = RsiPadded /\ lastRead.out = <<TRUE>>
    /\ \E i \in DOMAIN cache : ~cache[i].value.ok
    /\ queriesSince[keyOf(RSI)] = 1

\* One step in which a getStudySchema call that missed the cache looks for
\* the widget while one is registered.
C24_FetchStep ==
    \A p \in Procs :
        (pc[p] = "fetch" /\ pc'[p] # "fetch" /\ widgetRef # NoWidget)
        => /\ accessor'[p] # "none"
           /\ res'[p] # [ok |-> FALSE, error |-> NotAvailableError]

\* C24: while a widget is registered, a getStudySchema call that misses the
\* cache queries that widget for the inputs and does not fail with "widget not
\* available".
C24_FetchUsesRegisteredWidget == [][C24_FetchStep]_vars

\* An entity e created in this step went into the table (before, after)
\* under a key the table already had.
Overwrote(before, after, e) ==
    \E i \in DOMAIN after : after[i].value = e /\ MapHas(before, after[i].key)

\* What then holds of the table and of the handle old it held under that key.
OverwriteLeaves(before, after, e) ==
    \A i \in DOMAIN after :
        (after[i].value = e /\ MapHas(before, after[i].key)) =>
            LET old == MapGet(before, after[i].key, NoHandle)
            IN  /\ Cardinality({j \in DOMAIN after : after[j].key = after[i].key}) = 1
                /\ Len(after) = Len(before)
                /\ old # e
                /\ old \in entities'
                /\ old \notin TableHandles'

\* One step in which a shape is created.
C25_OverwriteStep ==
    \A e \in entities' \ entities :
        /\ OverwriteLeaves(appliedPatterns, appliedPatterns', e)
        /\ OverwriteLeaves(appliedAnnotations, appliedAnnotations', e)
        /\ OverwriteLeaves(appliedPriceTargets, appliedPriceTargets', e)

\* C25: a draw call that generates a key its table already holds replaces the
\* entry: the table keeps one entry for the key, with the new handle, and the
\* earlier shape stays on the widget, referenced by no table.
C25_SameKeyOverwrites == [][C25_OverwriteStep]_vars

C25_Witness ==
    /\ Len(appliedPatterns) = 1
    /\ Cardinality(entities) = 2
    /\ \E t, u \in Tasks :
          /\ t # u
          /\ top[t].name = "drawTrendLine" /\ top[u].name = "drawTrendLine"
          /\ tout[t].state = "resolved" /\ tout[u].state = "resolved"
          /\ tout[t].value # NoHandle /\ tout[u].value # NoHandle
          /\ tout[t].value.id = tout[u].value.id
          /\ appliedPatterns[1].value = tout[u].value.shape
          /\ tout[t].value.shape \in entities

\* C26: whatever TradingViewChart components are mounted, re-rendered and
\* unmounted, before or after the script has loaded, at most one script
\* element is appended to the document.
C26_ScriptAppendedOnce == scriptElements <= 1

C26_Witness ==
    /\ scriptElements = 1
    /\ scriptPromise = "pending"
    /\ Cardinality({i \in 1..nRuns : runs[i].pos = "awaitScript" /\ ~runs[i].cancelled}) = 2
    /\ \E i \in 1..nRuns : runs[i].cancelled

\* One step that ends a removeAllStudies call with a chart registered.
C27_RemoveAllStep ==
    \A t \in Tasks :
        (/\ top[t].name = "removeAllStudies"
         /\ tpc[t] = "awaitReady" /\ tpc'[t] = "done"
         /\ chartRef # NoWidget)
        => /\ appliedIndicators' = <<>>
           /\ {e \in entities' : e.chart = chartRef /\ e.id \in studyIds'} = {}

\* C27: when removeAllStudies completes with a widget registered, no study
\* is left on the chart and appliedIndicators is empty.
C27_RemoveAllStudiesRemovesAll == [][C27_RemoveAllStep]_vars

\* The names the run has recorded, in success and in failed.
RecordedNames ==
    [i \in DOMAIN success |-> success[i]] \o [i \in DOMAIN failed |-> failed[i].name]

\* C28: no input position of a prefetchStudySchemas run is processed twice,
\* and once the run has ended none was skipped: the names in success and
\* failed are the input names, each as often as in the input.
C28_EveryPositionOnce ==
    /\ done = Len(success) + Len(failed)
    /\ \A n \in PrefetchNames : Occurrences(RecordedNames, n) <= Occurrences(pfNames, n)
    /\ RunEnded =>
          \A n \in PrefetchNames : Occurrences(RecordedNames, n) = Occurrences(pfNames, n)

\* The defaults of the indicators that have defaults.
DefaultsTable ==
    << [key |-> RSI, value |-> << [key |-> "length", value |-> Num(14)] >>],
       [key |-> MACD, value |->
          << [key |-> "in_0", value |-> Num(12)], [key |-> "in_1", value |-> Num(26)],
             [key |-> "in_2", value |-> Num(9)], [key |-> "in_3", value |-> Str(CLOSE)] >>],
       [key |-> MovingAverage, value |-> << [key |-> "length", value |-> Num(20)] >>],
       [key |-> BollingerBands, value |->
          << [key |-> "length", value |-> Num(20)], [key |-> "mult", value |-> Num(2)] >>],
       [key |-> Stochastic, value |->
          << [key |-> "k", value |-> Num(14)], [key |-> "d", value |-> Num(3)] >>] >>

\* sent is the defaults of the name merged with the caller's parameters:
\* what the caller supplied is there unchanged, and every other parameter
\* is a default of the name.
MergedWithOverrides(name, supplied, sent) ==
    LET defaults == MapGet(DefaultsTable, name, <<>>)
    IN  /\ MapKeys(sent) = MapKeys(supplied) \cup MapKeys(defaults)
        /\ \A k \in MapKeys(supplied) : Prop(sent, k) = Prop(supplied, k)
        /\ \A k \in MapKeys(defaults) \ MapKeys(supplied) : Prop(sent, k) = Prop(defaults, k)

C30_ApplyStep ==
    \A t \in Tasks :
        (/\ tpc[t] = "awaitReady" /\ tpc'[t] = "done"
         /\ top[t].name = "applyIndicator"
         /\ Len(widgetCalls') = Len(widgetCalls) + 1)
        => LET config == top[t].config
               sent == widgetCalls'[Len(widgetCalls')].inputs
           IN  IF MapHas(DefaultsTable, config.name)
               THEN MergedWithOverrides(config.name, config.parameters, sent)
               ELSE sent = config.parameters

\* C30: applyIndicator hands createStudy the defaults of the indicator name
\* merged with the caller's parameters: every parameter the caller supplied,
\* the values 0 and the empty string included, arrives unchanged, a default
\* is used only for a parameter the caller did not supply, and for a name
\* without defaults the caller's parameters arrive unchanged.
C30_CallerParametersWin == [][C30_ApplyStep]_vars

\* How the single-item call for the i-th item settled.
ItemOutcome(i) == tout[batchChildren[i]]

\* What holds of every call with a list of items: it has not rejected, the
\* single-item calls were made for the items in input order, an item that
\* raised left null, and the call returns when every item was attempted.
BatchShape ==
    LET op == top[batchTask]
    IN  /\ tout[batchTask].state # "rejected"
        /\ Len(batchResults) <= Len(batchChildren)
        /\ Len(batchChildren) <= Len(op.items)
        /\ \A i \in 1..Len(batchChildren) :
              top[batchChildren[i]] = ItemCall(op.name, op.items[i])
        /\ \A i \in 1..Len(batchResults) :
              ItemOutcome(i).state = "rejected" => batchResults[i] = Null
        /\ tpc[batchTask] = "done" =>
              /\ tout[batchTask] = Resolved(batchResults)
              /\ Len(batchResults) = Len(op.items)

\* C29 as stated: applyMultipleIndicators, drawMultiplePatterns and
\* drawMultiplePriceTargets return an array as long as their input, made in
\* input order, whose i-th element is null exactly when item i raised; a
\* failure does not keep later items from being attempted and the call never
\* rejects.
C29_NullExactlyWhenRaised ==
    batchTask # NoTask =>
        /\ BatchShape
        /\ \A i \in 1..Len(batchResults) :
              batchResults[i] = Null <=> ItemOutcome(i).state = "rejected"

\* C29, amended: applyMultipleIndicators, drawMultiplePatterns and
\* drawMultiplePriceTargets return an array as long as their input, made in
\* input order, whose i-th element is null when item i raised and otherwise
\* what the single-item call returned for item i (itself null or falsy when
\* the widget handed back no study or line); a failure does not keep later
\* items from being attempted and the call never rejects.
C29_NullWhenRaisedElseItemResult ==
    batchTask # NoTask =>
        /\ BatchShape
        /\ \A i \in 1..Len(batchResults) :
              ItemOutcome(i).state = "resolved" => batchResults[i] = ItemOutcome(i).value

C29_Witness ==
    /\ batchTask # NoTask /\ tpc[batchTask] = "done"
    /\ Len(batchResults) = 2
    /\ ItemOutcome(1).state = "rejected" /\ batchResults[1] = Null
    /\ ItemOutcome(2).state = "resolved" /\ batchResults[2] \notin {Null, NoHandle}

\* How many coordinates the helper of a pattern type asks for.
Needed(type) ==
    IF type = HEAD_AND_SHOULDERS THEN 5
    ELSE IF type \in {DOUBLE_TOP, DOUBLE_BOTTOM} THEN 3
    ELSE IF type = TREND_LINE THEN 0
    ELSE 4

\* The drawPattern calls with fewer coordinates than their type needs.
Short(t) ==
    /\ top[t].name = "drawPattern"
    /\ top[t].pattern.n < Needed(top[t].pattern.type)

C31_ShortPatternStep ==
    \A t \in Tasks :
        (Short(t) /\ tpc'[t] # tpc[t] /\ tpc[t] # "idle") =>
            LET n == top[t].pattern.n
            IN  /\ appliedPatterns' = appliedPatterns
                /\ tpc[t] \in {"awaitReady", "annotation"}
                /\ (tpc[t] = "awaitReady" /\ chartRef # NoWidget) =>
                      /\ tpc'[t] = (IF n = 0 THEN "done" ELSE "annotation")
                      /\ widgetVars' = widgetVars /\ tableVars' = tableVars
                /\ (tpc[t] = "annotation" /\ chartRef # NoWidget) =>
                      /\ n > 0
                      /\ widgetCalls' = Append(widgetCalls,
                                               [chart |-> chartRef, method |-> "createShape",
                                                shape |-> "text", at |-> n \div 2])
                      /\ \A e \in entities' \ entities :
                            \E i \in 1..Len(appliedAnnotations') :
                                appliedAnnotations'[i].value = e

\* C31: drawPattern given fewer coordinates than its type needs (4 for the
\* triangle and channel types, 5 for head-and-shoulders, 3 for double top
\* and bottom) draws no line and adds nothing to appliedPatterns; with at
\* least one coordinate it still creates the text annotation at the middle
\* coordinate and records the shape it gets in appliedAnnotations, and with
\* no coordinates it creates nothing.
C31_ShortPatternOnlyAnnotates == [][C31_ShortPatternStep]_vars

C31_Witness ==
    \E t \in Tasks :
        /\ Short(t) /\ top[t].pattern.n = 3 /\ tout[t] = Resolved(PatternResults)
        /\ appliedPatterns = <<>> /\ Len(appliedAnnotations) = 1
        /\ Len(widgetCalls) = 1 /\ widgetCalls[1].at = 1

\* C32: whenever the chart handle is null, appliedIndicators, appliedPatterns,
\* appliedAnnotations and appliedPriceTargets are all empty: no operation,
\* however it interleaves with registerWidget and unregisterWidget, adds an
\* entry while the handle is null.
C32_TablesEmptyWithoutChart ==
    chartRef = NoWidget =>
        /\ appliedIndicators = <<>> /\ appliedPatterns = <<>>
        /\ appliedAnnotations = <<>> /\ appliedPriceTargets = <<>>

C32_Witness ==
    /\ chartRef = NoWidget /\ readyResolved
    /\ entities # {}
    /\ appliedPriceTargets = <<>> /\ appliedAnnotations = <<>>
    /\ \E t \in Tasks :
          /\ top[t].name = "drawPriceTarget"
          /\ tout[t] = Resolved([id |-> PriceTargetId(top[t].target), label |-> NoHandle])

\* t was invoked before u.
InvokedBefore(t, u) == t[2] < u[2] /\ tpc[t] # "idle"

\* The operation has not called the widget so far and has not ended.
NotYetCalled(t) ==
    \/ tpc[t] = "awaitReady"
    \/ /\ top[t].name = "drawPattern"
       /\ \/ tpc[t] = "line1"
          \/ tpc[t] = "annotation" /\ LineCount(top[t].pattern.type, top[t].pattern.n) = 0

\* This step is the first widget call of u.
FirstCall(u) ==
    /\ NotYetCalled(u) /\ tpc'[u] # tpc[u]
    /\ Len(widgetCalls') > Len(widgetCalls)

\* The continuations queued on the gate run in the order of invocation.
ReleasedInOrder ==
    \A t, u \in Tasks :
        (InvokedBefore(t, u) /\ tpc[u] = "awaitReady" /\ tpc'[u] # "awaitReady")
        => tpc[t] # "awaitReady"

C33_FirstCallStep ==
    \A t, u \in Tasks :
        (InvokedBefore(t, u) /\ FirstCall(u)) => ~NotYetCalled(t)

C33_DirectFirstCallStep ==
    /\ ReleasedInOrder
    /\ \A t, u \in Tasks :
          (/\ InvokedBefore(t, u) /\ FirstCall(u)
           /\ top[t].name # "drawPattern" /\ top[u].name # "drawPattern")
          => ~NotYetCalled(t)

C34_ResumeStep ==
    \A t \in Tasks :
        (/\ top[t].name = "setSymbol"
         /\ tpc[t] = "setResolution" /\ tpc'[t] # "setResolution"
         /\ chartRef = NoWidget)
        => /\ tpc'[t] = "done"
           /\ tout'[t].state = "resolved"
           /\ widgetCalls' = widgetCalls

\* C34: when unregisterWidget runs while setSymbol is suspended on the
\* promise of the widget's setSymbol, setSymbol does not dereference the
\* null chart handle: it completes without raising and calls setResolution
\* on no widget.
C34_SetSymbolSurvivesUnregister == [][C34_ResumeStep]_vars

\* This step is a step of effect run i.
RunStep(i) == runs[i].pos # "idle" /\ runs'[i].pos # runs[i].pos

\* This step calls registerWidget with a widget.
Registers ==
    /\ widgetRef' # NoWidget
    /\ widgetRef' # widgetRef \/ readyResolved' # readyResolved \/ chartRef' # chartRef

C35_RunStep ==
    \A i \in 1..MaxRuns :
        RunStep(i) =>
            /\ runs[i].cancelled =>
                  /\ chartWidget' = chartWidget
                  /\ widgetRef' = widgetRef /\ chartRef' = chartRef
                  /\ readyResolved' = readyResolved
            /\ Registers => ~runs[i].cancelled /\ widgetRef' = Widget(i)

\* C35: registerWidget is only called with the widget created by the effect
\* run that is still mounted, after that widget reported chart-ready; once
\* an effect run has been cleaned up, neither its script-load continuation
\* nor a late chart-ready callback of its removed widget creates or
\* registers anything.
C35_OnlyLiveRunRegisters == [][C35_RunStep]_vars

C36_RemoveTargetStep ==
    \A t \in Tasks :
        LET key == top[t].key
            labelKey == <<"label_">> \o key
        IN  (/\ top[t].name = "removePriceTarget"
             /\ tpc[t] = "awaitReady" /\ tpc'[t] = "done"
             /\ chartRef # NoWidget
             /\ MapHas(appliedPriceTargets, key) /\ MapHas(appliedAnnotations, labelKey)
             /\ tout'[t].state = "resolved")
            => /\ ~MapHas(appliedPriceTargets', key)
               /\ ~MapHas(appliedAnnotations', labelKey)
               /\ MapGet(appliedPriceTargets, key, NoHandle) \notin entities'
               /\ MapGet(appliedAnnotations, labelKey, NoHandle) \notin entities'

\* C36: after drawPriceTarget succeeded for a target and removePriceTarget
\* is called with the returned id on the same registered widget, neither
\* the line nor the label that drawPriceTarget created is left on the
\* widget, and no table holds a handle for them.
C36_RemovalLeavesNoShape == [][C36_RemoveTargetStep]_vars

\* The appliedIndicators key of a badge.
BadgeKey(name) == IF name = EMA20 THEN EMA_20 ELSE name

\* C37: whenever ChartContent shows an indicator as applied, or the
\* strategy as applied, appliedIndicators holds the corresponding key (MACD,
\* RSI, EMA_20) for the registered widget, also after a symbol change
\* remounts the widget and when Add Strategy is clicked without a widget.
C37_AppliedBadgeHasEntry ==
    /\ \A n \in StrategyNames :
          indicatorState[n] = "applied" => MapHas(appliedIndicators, BadgeKey(n))
    /\ isStrategyApplied => \E n \in StrategyNames : MapHas(appliedIndicators, BadgeKey(n))

\* C38: each time the pair finder is opened, fetchAllSymbols is called at
\* most once while it stays open, never while a fetch is in flight and never
\* once tokens are loaded; a fetch that fails or returns no tokens is not
\* issued again by itself.
C38_OneFetchPerOpening == fetches <= 1

\* An upload started by a file selection or a paste has not settled.
UploadPending == \E u \in 1..MaxUploads : uploads[u].left > 0

\* C39: whenever an upload started by file selection or by pasting an image
\* has not settled, uploadQueue is non-empty and the send button is disabled,
\* also when a file-selection upload and a paste upload overlap and one of
\* them finishes first.
C39_SendGatedWhileUploading ==
    UploadPending => Len(uploadQueue) > 0 /\ SendDisabled

=============================================================================
